---- MODULE Spec2Model ----
(***************************************************************************)
(* A model of feedme's content-fetching core (package api): the pseudo-ID  *)
(* story caches of the scraping / JSON / feed adapters, the politeness     *)
(* throttle with its 429 retry, and the Hacker News client's bounded       *)
(* fan-out FetchItems and recursive comment fetch.                         *)
(*                                                                         *)
(* Each component has its own variables, initial condition and next-state  *)
(* relation; a specification runs one component and leaves the variables   *)
(* of the others untouched.                                                *)
(***************************************************************************)
EXTENDS Integers, Sequences, FiniteSets, TLC

VARIABLES
    \* ---- caching adapters (storyCache behind cacheMu) ----
    adapter,      \* which caching adapter this instance is
    storyCache,   \* c.storyCache: pseudo-ID -> item
    cacheMu,      \* c.cacheMu: [writer |-> BOOLEAN, readers |-> Nat]
    wpc,          \* position of the goroutine running FetchStoryIDs
    wStories,     \* the stories that goroutine fetched (allStories / stories / items)
    wI,           \* its loop index i (0-based, as in the source)
    fetchCount,   \* FetchStoryIDs calls made so far
    wResult,      \* what the last FetchStoryIDs call returned: [ids, err]
    lastIds,      \* history: ids returned by the most recent successful FetchStoryIDs
    prevIds,      \* history: ids returned by the successful FetchStoryIDs before that one
    committed,    \* history: the cache as the most recent successful FetchStoryIDs left it
    rpc,          \* position of the goroutine running FetchItem / FetchItems
    rOp,          \* "FetchItem" or "FetchItems"
    rIds,         \* the identifiers it was called with
    rI,           \* its loop index i (0-based)
    rItems,       \* its result slots (NoItem = nil)
    rErr,         \* FetchItem's error: "" (nil) or "not found"
    rSeen,        \* history: the complete snapshots of the call's time: the one current
                  \* at the call and the one of every replacement that overlaps it
    rQuiet,       \* history: no cache replacement was under way when it looked up
    rLastIds,     \* history: lastIds when it looked up
    rPrevIds,     \* history: prevIds when it looked up
    \* ---- Hacker News Client.FetchItems ----
    ids,          \* the argument of FetchItems
    failing,      \* the identifiers whose item the upstream fails to serve in this run
    wk,           \* position of the worker goroutine of each index
    items,        \* the result slice
    firstErr,     \* the first error recorded
    hpc,          \* position of FetchItems itself: "running" (wg.Wait) or "returned"
    errOrder,     \* history: the individual errors, in the order the workers took mu
    \* ---- Hacker News Client.FetchCommentTree ----
    kidsOf,       \* upstream: the Kids of the story (index 0) and of every comment
    suppressed,   \* upstream: the comments whose Deleted or Dead flag is set
    down,         \* upstream: the comments whose item fails to be served in this run
    maxDepth,     \* the maxDepth argument
    tpc,          \* "call" before FetchCommentTree runs, "returned" after
    tree,         \* its result: [err, comments]
    batched,      \* history: the identifiers the call passed to c.FetchItems
    \* ---- throttled adapters: throttle, the listing fetch, FetchCommentTree ----
    now,          \* the clock, in milliseconds
    lastRequest,  \* c.lastRequest: [zero, at]; zero is the zero time.Time
    requestMu,    \* c.requestMu: "free" or the goroutine holding it
    gpc,          \* per goroutine: where its call stands
    gKind,        \* per goroutine: "none", "listing" or "comments"
    gWake,        \* per goroutine: the time its current time.Sleep ends
    gReqs,        \* history, per goroutine: the requests it sent, [at, respAt, status]
    gPasses,      \* history, per goroutine: the times its throttle() calls returned
    gResult,      \* per goroutine: "none", "ok" or "error"
    \* ---- FetchStoryIDs of every adapter, request by request ----
    lSource,      \* the adapter
    lFeed,        \* the feed argument: "listed" (one of FeedNames()) or "unlisted"
    lpc,          \* "call", "page2", "refetch" or "returned"
    lStories,     \* allStories so far
    lGot,         \* history: the responses received, in order
    lResult,      \* the returned [err, stories]; stories[i] has identifier i
    lCache,       \* c.storyCache after the call, as the sequence of its items
    lItem,        \* the result of a FetchItem after the call: [err, item]
    \* ---- FetchCommentTree of the adapters that fetch one thread document ----
    cSource,      \* the adapter
    cType,        \* item.Type, as a sequence of characters
    cGot,         \* history: the responses received (none or one)
    cEntry,       \* upstream: what each entry of the thread document is
    \* ---- main: the -source flag and the client constructed for it ----
    sourceFlag,   \* the value of the -source flag
    client,       \* the client main constructed (source): [kind, subreddit]
    \* ---- StoryURL ----
    uSource,      \* the adapter
    uItem,        \* the item: [type, url], sequences of characters
    upc,          \* "call" before StoryURL runs, "returned" after
    uResult,      \* the string it returned
    \* ---- feed selection: FeedNames, FeedLabels and the feed maps ----
    fAdapter,     \* the adapter
    fIndex,       \* the position of the selected feed in FeedNames() (from 1)
    fpc,          \* "pick" before the feed is used, "used" after
    fLabel,       \* <<FeedLabels()[i]>>, or <<>> when there is no such label
    fKnown,       \* ok of the adapter's map lookup of FeedNames()[i]
    \* ---- Item.TimeAgo ----
    aSince,       \* d = time.Since(t), in half seconds
    apc,          \* "call" before TimeAgo runs, "returned" after
    aResult,      \* the string it returned
    \* ---- UpdateInfo.HasUpdate and compareVersions ----
    vInfo,        \* the *UpdateInfo: NilInfo or [latest, current], sequences of characters
    vpc,          \* "call" before HasUpdate runs, "returned" after
    vCompared,    \* compareVersions(u.LatestVersion, u.CurrentVersion)
    vHasUpdate,   \* the result of HasUpdate
    \* ---- CheckForUpdate ----
    kNow,         \* the clock, in hours
    kDirOk,       \* whether getCacheDir succeeds on this machine
    kCache,       \* the cache file: NoCache, or [lastCheck] as saveCache wrote it
    kQueries,     \* history: the times of the requests to the release endpoint
    kLast,        \* history: the last call: [version, fresh, asked, result]
    \* ---- throttled adapters: the goroutines' hold on c.cacheMu ----
    gHolds,       \* per goroutine: "none", "r" (RLock) or "w" (Lock)
    \* ---- the terminal UI: the fields of ui.Model ----
    mView,        \* m.view: "stories" or "comments"
    mFeed,        \* m.feed: index into api.FeedNames
    mStoryIDs,    \* m.storyIDs, as runs (<<>> is nil)
    mStories,     \* m.stories, as runs (<<>> is nil)
    mComments,    \* m.comments: "nil" or "loaded"
    mCursor,      \* m.cursor
    mOffset,      \* m.offset
    mLoading,     \* m.loading
    mErr,         \* m.err: "" (nil) or the error of a fetch
    mShowHelp,    \* m.showHelp
    mHeight,      \* m.height; 0 until the first WindowSizeMsg (m.width likewise)
    mCurrentItem, \* m.currentItem: <<>> (nil) or <<story>>
    mRun,         \* the program: "idle", "running", "quit" or "panic"
    inbox,        \* the commands under way, whose messages are still to come
    issued,       \* the commands issued so far, by kind
    uKeys,        \* history: the number of key presses so far
    uRetried      \* history: Refresh was pressed with the error on display, and
                  \* no fetch has failed since

cacheVars == <<adapter, storyCache, cacheMu, wpc, wStories, wI, fetchCount, wResult,
               lastIds, prevIds, committed,
               rpc, rOp, rIds, rI, rItems, rErr, rSeen, rQuiet, rLastIds, rPrevIds>>

hnVars == <<ids, failing, wk, items, firstErr, hpc, errOrder>>

treeVars == <<kidsOf, suppressed, down, maxDepth, tpc, tree, batched>>

throttleVars ==
    <<now, lastRequest, requestMu, gpc, gKind, gWake, gReqs, gPasses, gResult>>

listVars == <<lSource, lFeed, lpc, lStories, lGot, lResult, lCache, lItem>>

threadVars == <<cSource, cType, cGot, cEntry>>

mainVars == <<sourceFlag, client>>
urlVars == <<uSource, uItem, upc, uResult>>
feedVars == <<fAdapter, fIndex, fpc, fLabel, fKnown>>
agoVars == <<aSince, apc, aResult>>
versionVars == <<vInfo, vpc, vCompared, vHasUpdate>>
updateVars == <<kNow, kDirOk, kCache, kQueries, kLast>>
lockVars == <<gHolds>>
uiVars == <<mView, mFeed, mStoryIDs, mStories, mComments, mCursor, mOffset, mLoading, mErr,
            mShowHelp, mHeight, mCurrentItem, mRun, inbox, issued, uKeys, uRetried>>
moreVars == <<lockVars, uiVars>>
toolVars == <<mainVars, urlVars, feedVars, agoVars, versionVars, updateVars>>
utilVars == <<mainVars, urlVars, feedVars, agoVars, versionVars, updateVars, moreVars>>
coreVars == <<cacheVars, hnVars, treeVars, throttleVars, listVars, threadVars>>
vars == <<coreVars, utilVars>>

--------------------------------------------------------------------------
(* Bounds of the model *)

MaxStories == 2     \* stories one listing fetch yields, at most
MaxFetches == 2     \* FetchStoryIDs calls on one instance
MaxBatch == 1       \* identifiers in one FetchItems call of a caching adapter
MaxLen == 3         \* identifiers in one Hacker News FetchItems call
MaxId == 3          \* the Hacker News identifiers are 1..MaxId
MaxPoolIds == 11    \* identifiers in the FetchItems call that fills the pool
MaxComments == 3    \* comments under one Hacker News story
MaxDepthArg == 2    \* the largest maxDepth argument
MaxTicks == 4       \* clock steps in a run of the throttled adapters
MaxEntries == 2     \* entries in one upstream document
MaxName == 4        \* characters of a -source flag
MaxCount == 2       \* the largest count of a unit among the ages tried
MaxVersion == 3     \* characters of a version string
MaxChecks == 3      \* requests to the release endpoint in one run
MaxClock == 4       \* steps of the clock of the update check
MaxShort == 1       \* stories of a short listing, and of the last batch of a long one
MaxListings == 3    \* listing fetches of one UI session
MaxBatches == 3     \* story batch fetches of one UI session
MaxThreads == 1     \* comment thread fetches of one UI session
MaxKeys == 5        \* key presses of one UI session
MaxLong == 1        \* listing fetches of one UI session, the first ones, served more than a batch

--------------------------------------------------------------------------
(* Items and caches *)

\* A *Item the adapter allocated: the pos-th story of the gen-th listing fetch.
Item(gen, pos) == [gen |-> gen, pos |-> pos]

\* A nil *Item.
NoItem == [gen |-> 0, pos |-> 0]

\* The caching adapters. "rss" is the single-URL feed client, "rssmap" the
\* feed-map client behind the BBC, NPR, Google News and Reuters sources.
Adapters == {"lobsters", "tildes", "reddit", "devto", "apnews", "rss", "rssmap"}

\* The adapter guards storyCache with a sync.RWMutex; the feed-map client
\* declares no mutex at all.
HasCacheMu(a) == a # "rssmap"

\* FetchStoryIDs fails with "no stories found" on an empty listing; AP News and
\* the feed-map client cache whatever the parse returned.
RejectsEmpty(a) == a \in {"lobsters", "tildes", "reddit", "devto", "rss"}

\* make(map[int]*Item) keeping the old entries: a merge instead of a replacement.
KeepCache(old) == old

\* c.storyCache = make(map[int]*Item)
ClearCache(old) == [k \in {} |-> NoItem]

\* c.storyCache[id] = story
PutCache(cache, id, story) ==
    [k \in DOMAIN cache \cup {id} |-> IF k = id THEN story ELSE cache[k]]

\* item, ok := c.storyCache[id]
Lookup(cache, id) == IF id \in DOMAIN cache THEN cache[id] ELSE NoItem

\* ids[i] = i + 1 for every story, in listing order
PseudoIDs(stories) == [i \in 1..Len(stories) |-> i]

\* The set of values of a sequence.
Range(s) == {s[i] : i \in DOMAIN s}

\* What the upstream can send one listing fetch: gen's stories, 0..MaxStories of them.
Listings(gen) == {[i \in 1..n |-> Item(gen, i)] : n \in 0..MaxStories}

--------------------------------------------------------------------------
(* The caching adapters: FetchStoryIDs replaces the cache, FetchItem and   *)
(* FetchItems look identifiers up in it.                                   *)

InitCache ==
    /\ adapter \in Adapters
    /\ storyCache = [k \in {} |-> NoItem]
    /\ cacheMu = [writer |-> FALSE, readers |-> 0]
    /\ wpc = "idle"
    /\ wStories = <<>>
    /\ wI = 0
    /\ fetchCount = 0
    /\ wResult = [ids |-> <<>>, err |-> ""]
    /\ lastIds = <<>>
    /\ prevIds = <<>>
    /\ committed = [k \in {} |-> NoItem]
    /\ rpc = "idle"
    /\ rOp = "FetchItem"
    /\ rIds = <<>>
    /\ rI = 0
    /\ rItems = <<>>
    /\ rErr = ""
    /\ rSeen = {}
    /\ rQuiet = TRUE
    /\ rLastIds = <<>>
    /\ rPrevIds = <<>>

readerVars == <<rpc, rOp, rIds, rI, rItems, rErr, rQuiet, rLastIds, rPrevIds>>
historyVars == <<lastIds, prevIds, committed>>

\* The replacement is complete: FetchStoryIDs unlocks and returns ids. The
\* history variables record the snapshot it leaves.
ReturnIds(cache) ==
    /\ wpc' = "idle"
    /\ cacheMu' = [cacheMu EXCEPT !.writer = FALSE]
    /\ wResult' = [ids |-> PseudoIDs(wStories), err |-> ""]
    /\ lastIds' = PseudoIDs(wStories)
    /\ prevIds' = lastIds
    /\ committed' = cache

\* An error return that first ran the "clear old cache" statement.
ClearOnError(cache) == [k \in {} |-> NoItem]

\* return nil, err: every error return of FetchStoryIDs stands before
\* c.cacheMu.Lock() and the first write to c.storyCache.
OnFetchError(cache) == cache

\* FetchStoryIDs, the listing fetch failing (transport error, non-200 status,
\* unparsable document, unknown feed key): the call returns the error.
FetchStoryIDsFails ==
    /\ wpc = "idle"
    /\ fetchCount < MaxFetches
    /\ fetchCount' = fetchCount + 1
    /\ wResult' = [ids |-> <<>>, err |-> "fetch failed"]
    /\ storyCache' = OnFetchError(storyCache)
    /\ UNCHANGED <<adapter, cacheMu, wpc, wStories, wI, historyVars,
                   readerVars, rSeen>>

\* FetchStoryIDs, the listing fetch succeeding with some stories: an empty
\* listing is an error on the adapters that check len(stories) == 0.
FetchStoryIDsFetched ==
    /\ wpc = "idle"
    /\ fetchCount < MaxFetches
    /\ fetchCount' = fetchCount + 1
    /\ \E stories \in Listings(fetchCount + 1) :
          IF Len(stories) = 0 /\ RejectsEmpty(adapter)
          THEN /\ wResult' = [ids |-> <<>>, err |-> "no stories found"]
               /\ storyCache' = OnFetchError(storyCache)
               /\ UNCHANGED <<wpc, wStories, rSeen>>
          ELSE /\ wpc' = "lock"
               /\ wStories' = stories
               /\ rSeen' = IF rpc \in {"rlock", "lookup"}
                           THEN rSeen \cup {stories}
                           ELSE rSeen
               /\ UNCHANGED <<wResult, storyCache>>
    /\ UNCHANGED <<adapter, cacheMu, wI, historyVars, readerVars>>

\* c.cacheMu.Lock(): waits until no reader and no writer holds the mutex. The
\* feed-map client takes no lock.
CacheLock ==
    /\ wpc = "lock"
    /\ HasCacheMu(adapter) => (~cacheMu.writer /\ cacheMu.readers = 0)
    /\ cacheMu' = [cacheMu EXCEPT !.writer = HasCacheMu(adapter)]
    /\ wpc' = "clear"
    /\ UNCHANGED <<adapter, storyCache, wStories, wI, fetchCount, wResult, historyVars,
                   readerVars, rSeen>>

\* c.storyCache = make(map[int]*Item); with no story to insert the loop body
\* never runs and the call unlocks and returns.
CacheClear ==
    /\ wpc = "clear"
    /\ storyCache' = ClearCache(storyCache)
    /\ wI' = 0
    /\ IF Len(wStories) = 0
       THEN ReturnIds(storyCache')
       ELSE /\ wpc' = "insert"
            /\ UNCHANGED <<cacheMu, wResult, historyVars>>
    /\ UNCHANGED <<adapter, wStories, fetchCount, readerVars, rSeen>>

\* One iteration of the loop: id := i + 1; c.storyCache[id] = story. After
\* the last one the call unlocks and returns.
CacheInsert ==
    /\ wpc = "insert"
    /\ wI < Len(wStories)
    /\ storyCache' = PutCache(storyCache, wI + 1, wStories[wI + 1])
    /\ wI' = wI + 1
    /\ IF wI' = Len(wStories)
       THEN ReturnIds(storyCache')
       ELSE UNCHANGED <<wpc, cacheMu, wResult, historyVars>>
    /\ UNCHANGED <<adapter, wStories, fetchCount, readerVars, rSeen>>

writerVars == <<adapter, storyCache, wpc, wStories, wI, fetchCount, wResult, historyVars>>

\* The identifiers a caller may ask for: the ones a listing can hold, and one beyond.
AskIds == 1..(MaxStories + 1)

\* The call of FetchItem(id) or FetchItems(ids).
StartLookup(op, asked) ==
    /\ rpc = "idle"
    /\ rpc' = "rlock"
    /\ rOp' = op
    /\ rIds' = asked
    /\ rI' = 0
    /\ rItems' = [i \in 1..Len(asked) |-> NoItem]
    /\ rErr' = ""
    /\ rSeen' = {committed} \cup (IF wpc = "idle" THEN {} ELSE {wStories})
    /\ rQuiet' = TRUE
    /\ rLastIds' = lastIds
    /\ rPrevIds' = prevIds
    /\ UNCHANGED <<writerVars, cacheMu>>

FetchItemCall == \E id \in AskIds : StartLookup("FetchItem", <<id>>)

FetchItemsCall ==
    \E n \in 0..MaxBatch : \E asked \in [1..n -> AskIds] : StartLookup("FetchItems", asked)

\* c.cacheMu.RLock(): waits while a writer holds the mutex.
CacheRLock ==
    /\ rpc = "rlock"
    /\ HasCacheMu(adapter) => ~cacheMu.writer
    /\ cacheMu' = IF HasCacheMu(adapter)
                  THEN [cacheMu EXCEPT !.readers = @ + 1]
                  ELSE cacheMu
    /\ rpc' = "lookup"
    /\ UNCHANGED <<writerVars, rOp, rIds, rI, rItems, rErr, rSeen, rQuiet,
                   rLastIds, rPrevIds>>

\* item, ok := c.storyCache[id]; items[i] = item
CacheLookup ==
    /\ rpc = "lookup"
    /\ rI < Len(rIds)
    /\ rItems' = [rItems EXCEPT ![rI + 1] = Lookup(storyCache, rIds[rI + 1])]
    /\ rI' = rI + 1
    /\ rQuiet' = (rQuiet /\ wpc \notin {"clear", "insert"})
    /\ rLastIds' = lastIds
    /\ rPrevIds' = prevIds
    /\ UNCHANGED <<writerVars, cacheMu, rpc, rOp, rIds, rErr, rSeen>>

\* FetchItem's error for the slot it looked up.
NotFound(item) == IF item = NoItem THEN "not found" ELSE ""

\* c.cacheMu.RUnlock() and the return: FetchItem fails when !ok, FetchItems
\* returns its slots and a nil error.
CacheRUnlock ==
    /\ rpc = "lookup"
    /\ rI = Len(rIds)
    /\ cacheMu' = IF HasCacheMu(adapter)
                  THEN [cacheMu EXCEPT !.readers = @ - 1]
                  ELSE cacheMu
    /\ rErr' = IF rOp = "FetchItem" THEN NotFound(rItems[1]) ELSE ""
    /\ rpc' = "done"
    /\ UNCHANGED <<writerVars, rOp, rIds, rI, rItems, rSeen, rQuiet, rLastIds, rPrevIds>>

\* The caller has taken the result: the goroutine is free for the next call.
LookupDone ==
    /\ rpc = "done"
    /\ rpc' = "idle"
    /\ rOp' = "FetchItem"
    /\ rIds' = <<>>
    /\ rI' = 0
    /\ rItems' = <<>>
    /\ rErr' = ""
    /\ rSeen' = {}
    /\ rQuiet' = TRUE
    /\ rLastIds' = <<>>
    /\ rPrevIds' = <<>>
    /\ UNCHANGED <<writerVars, cacheMu>>


--------------------------------------------------------------------------
(* Hacker News: Client.FetchItems, one goroutine per identifier behind a   *)
(* counting semaphore.                                                     *)

\* sem := make(chan struct{}, 10)
PoolSize == 10

\* The *Item the upstream serves for id, and a nil *Item.
HNItem(id) == [id |-> id]
NilItem == [id |-> 0]

\* The error of the failed fetch of id, and a nil error.
ErrOf(id) == [failed |-> id]
NoErr == [failed |-> 0]

\* Client.FetchItem(id): one GET; a transport or decode failure is an error
\* and no item.
FetchItemHN(id, fails) ==
    IF id \in fails
    THEN [item |-> NilItem, err |-> ErrOf(id)]
    ELSE [item |-> HNItem(id), err |-> NoErr]

\* A pool whose slots are never given back: <-sem missing.
NeverReleased(w) == {i \in DOMAIN w : w[i] # "queued"}

\* The workers that hold a slot of sem: their FetchItem request is in flight.
InFlight(w) == {i \in DOMAIN w : w[i] = "fetching"}

\* A send on sem that never blocks: a pool without a ceiling.
SemUnbounded(w) == TRUE

\* sem <- struct{}{} proceeds only while fewer than cap(sem) slots are taken.
SemHasRoom(w) == Cardinality(InFlight(w)) < PoolSize

\* The item appended to the results in completion order instead of stored at idx.
StoreAppended(slots, idx, item) ==
    IF item = NilItem \/ \A k \in DOMAIN slots : slots[k] # NilItem
    THEN slots
    ELSE LET free == CHOOSE k \in DOMAIN slots :
                         /\ slots[k] = NilItem
                         /\ \A j \in DOMAIN slots : slots[j] = NilItem => k <= j
         IN  [slots EXCEPT ![free] = item]

\* if item != nil { items[idx] = item }
StoreItem(slots, idx, item) ==
    IF item # NilItem THEN [slots EXCEPT ![idx] = item] ELSE slots

\* The error recorded unconditionally: the last error wins.
RecordLastErr(first, err) == IF err # NoErr THEN err ELSE first

\* if err != nil && firstErr == nil { firstErr = err }
RecordErr(first, err) == IF err # NoErr /\ first = NoErr THEN err ELSE first

\* The state of a FetchItems call on entry: every worker spawned and queued on sem.
StartFetchItems(input, fails) ==
    /\ ids = input
    /\ failing = fails
    /\ wk = [i \in 1..Len(input) |-> "queued"]
    /\ items = [i \in 1..Len(input) |-> NilItem]
    /\ firstErr = NoErr
    /\ hpc = "running"
    /\ errOrder = <<>>

\* Calls of a few identifiers, in any order and with repetitions, with any
\* set of them failing upstream.
InitFetchItems ==
    \E n \in 0..MaxLen : \E input \in [1..n -> 1..MaxId] : \E fails \in SUBSET (1..MaxId) :
        StartFetchItems(input, fails)

\* A call of more identifiers than the pool has slots, the first of them failing
\* upstream.
InitFetchItemsPool ==
    StartFetchItems([i \in 1..MaxPoolIds |-> i], {1})

\* No FetchItems call.
IdleFetchItems == StartFetchItems(<<>>, {}) 

\* The worker of index i takes a slot of the pool: sem <- struct{}{}.
Acquire(i) ==
    /\ wk[i] = "queued"
    /\ SemHasRoom(wk)
    /\ wk' = [wk EXCEPT ![i] = "fetching"]
    /\ UNCHANGED <<ids, failing, items, firstErr, hpc, errOrder>>

\* The worker's FetchItem returns; under mu it records the error and stores
\* the item; its deferred calls free the slot and signal the wait group.
Finish(i) ==
    /\ wk[i] = "fetching"
    /\ LET got == FetchItemHN(ids[i], failing)
       IN  /\ firstErr' = RecordErr(firstErr, got.err)
           /\ items' = StoreItem(items, i, got.item)
           /\ errOrder' = IF got.err # NoErr THEN Append(errOrder, got.err) ELSE errOrder
    /\ wk' = [wk EXCEPT ![i] = "done"]
    /\ UNCHANGED <<ids, failing, hpc>>

\* wg.Wait() passes once every worker is done: return items, firstErr.
ReturnItems ==
    /\ hpc = "running"
    /\ \A i \in DOMAIN wk : wk[i] = "done"
    /\ hpc' = "returned"
    /\ UNCHANGED <<ids, failing, wk, items, firstErr, errOrder>>

--------------------------------------------------------------------------
(* Hacker News: Client.FetchCommentTree, a recursion over the Kids lists   *)
(* that fetches each level with FetchItems.                                *)

\* The elements of a set of numbers, as an ascending sequence.
RECURSIVE Ascending(_)
Ascending(S) ==
    IF S = {} THEN <<>>
    ELSE LET least == CHOOSE x \in S : \A y \in S : x <= y
         IN  <<least>> \o Ascending(S \ {least})

\* FetchItems(ids) as its callers see it: a slot per identifier, empty where
\* the fetch failed, and an error when any fetch failed.
FetchItemsOf(idlist) ==
    [items |-> [i \in 1..Len(idlist) |-> IF idlist[i] \in down THEN 0 ELSE idlist[i]],
     err   |-> \E i \in 1..Len(idlist) : idlist[i] \in down]

\* &Comment{Item: item, Depth: depth} with its Children
Comment(id, depth, children) == [id |-> id, depth |-> depth, children |-> children]

\* The result of fetchCommentsRecursive.
TreeErr == [err |-> TRUE, comments |-> <<>>]
TreeOk(comments) == [err |-> FALSE, comments |-> comments]

\* if err != nil { continue }: the loop moves on to the next item, and the
\* comment whose children failed is not appended.
OnChildrenError(id, depth, rest) == rest

\* A level where every comment has its parent's depth.
ParentDepth(depth) == depth

\* depth+1, the depth argument of the recursive call for the children
ChildDepth(depth) == depth + 1

\* An item of the batch with no data: only the empty slot (item == nil).
SkipsOnlyNil(item) == item = 0

\* if item == nil || item.Deleted || item.Dead { continue }
Skips(item) == item = 0 \/ item \in suppressed

RECURSIVE fetchCommentsRecursive(_, _, _)
RECURSIVE CommentsOf(_, _, _)

\* The loop over the fetched items of one level.
CommentsOf(fetched, depth, limit) ==
    IF fetched = <<>> THEN <<>>
    ELSE LET item == Head(fetched)
             rest == CommentsOf(Tail(fetched), depth, limit)
         IN  IF Skips(item)
             THEN rest
             ELSE IF Len(kidsOf[item]) > 0
                  THEN LET children == fetchCommentsRecursive(kidsOf[item], ChildDepth(depth), limit)
                       IN  IF children.err
                           THEN OnChildrenError(item, depth, rest)
                           ELSE <<Comment(item, depth, children.comments)>> \o rest
                  ELSE <<Comment(item, depth, <<>>)>> \o rest

fetchCommentsRecursive(idlist, depth, limit) ==
    IF Len(idlist) = 0 \/ (limit > 0 /\ depth >= limit)
    THEN TreeOk(<<>>)
    ELSE LET got == FetchItemsOf(idlist)
         IN  IF got.err THEN TreeErr ELSE TreeOk(CommentsOf(got.items, depth, limit))

\* The identifiers that fetchCommentsRecursive(idlist, depth, limit) and its
\* recursive calls pass to c.FetchItems.
RECURSIVE FetchItemsArgs(_, _, _)
FetchItemsArgs(idlist, depth, limit) ==
    IF Len(idlist) = 0 \/ (limit > 0 /\ depth >= limit)
    THEN {}
    ELSE LET got == FetchItemsOf(idlist)
             batch == {idlist[i] : i \in 1..Len(idlist)}
         IN  IF got.err THEN batch
             ELSE batch \cup
                  UNION {FetchItemsArgs(kidsOf[item], ChildDepth(depth), limit) :
                            item \in {x \in batch : ~Skips(x)}}

\* No FetchCommentTree call.
IdleTree ==
    /\ kidsOf = [p \in {0} |-> <<>>]
    /\ suppressed = {}
    /\ down = {}
    /\ maxDepth = 0
    /\ tpc = "call"
    /\ tree = TreeOk(<<>>)
    /\ batched = {}

\* A story with up to MaxComments comments, each the child of the story (0) or
\* of an earlier comment, any of them deleted or dead, any of them failing
\* upstream, and any maxDepth argument.
InitTree ==
    /\ \E n \in 0..MaxComments : \E parent \in [1..n -> 0..n] :
          /\ \A i \in 1..n : parent[i] < i
          /\ kidsOf = [p \in 0..n |-> Ascending({i \in 1..n : parent[i] = p})]
          /\ suppressed \in SUBSET (1..n)
          /\ down \in SUBSET (1..n)
    /\ maxDepth \in 0..MaxDepthArg
    /\ tpc = "call"
    /\ tree = TreeOk(<<>>)
    /\ batched = {}

\* FetchCommentTree(item, maxDepth) = fetchCommentsRecursive(item.Kids, 0, maxDepth)
\* on the Hacker News client.
FetchCommentTree ==
    /\ cSource = "hn"
    /\ tpc = "call"
    /\ tree' = fetchCommentsRecursive(kidsOf[0], 0, maxDepth)
    /\ batched' = FetchItemsArgs(kidsOf[0], 0, maxDepth)
    /\ tpc' = "returned"
    /\ UNCHANGED <<kidsOf, suppressed, down, maxDepth>>

--------------------------------------------------------------------------
(* The throttled adapters: throttle(), the listing fetch with its retry on  *)
(* HTTP 429, and FetchCommentTree, called from concurrent goroutines.       *)

Goroutines == {"g1", "g2"}

Throttled == {"lobsters", "tildes", "reddit", "devto", "apnews"}

\* minDelay in throttle(), in milliseconds
MinDelay(a) == IF a = "reddit" THEN 1000 ELSE 500

\* time.Sleep(2 * time.Second) before the retry
Backoff == 2000

\* The clock advances in steps of the shortest delay of the program.
ClockStep == MinDelay("lobsters")

MaxTime == MaxTicks * ClockStep

\* What c.http.Do can come back with: a status code, or a transport error.
Responses == {"200", "429", "500", "error"}

\* The listing fetch of AP News has no branch for status 429.
HasRetry(a) == a \in {"lobsters", "tildes", "reddit", "devto"}

\* The Lobsters FetchCommentTree parses the body whatever the status.
ChecksCommentStatus(a) == a \in {"tildes", "reddit", "devto"}

\* A throttle that never waits.
NoSleep(last, t, minDelay) == 0

\* elapsed := time.Since(c.lastRequest); the time to sleep when
\* elapsed < minDelay, and none otherwise. The zero lastRequest of a new
\* client is long ago.
SleepFor(last, t, minDelay) ==
    IF last.zero \/ t - last.at >= minDelay THEN 0 ELSE minDelay - (t - last.at)

\* A fetch that retries every failed response.
RetryOnAnyFailure(a, status) == status # "200"

\* if resp.StatusCode == 429 { ... retry ... }
RetryOn(a, status) == HasRetry(a) /\ status = "429"

\* The error result of one call after its last response.
CallFails(a, kind, status) ==
    \/ status = "error"
    \/ status # "200" /\ (kind = "listing" \/ ChecksCommentStatus(a))

IdleThrottle ==
    /\ now = 0
    /\ lastRequest = [zero |-> TRUE, at |-> 0]
    /\ requestMu = "free"
    /\ gpc = [g \in Goroutines |-> "idle"]
    /\ gKind = [g \in Goroutines |-> "none"]
    /\ gWake = [g \in Goroutines |-> 0]
    /\ gReqs = [g \in Goroutines |-> <<>>]
    /\ gPasses = [g \in Goroutines |-> <<>>]
    /\ gResult = [g \in Goroutines |-> "none"]

\* A goroutine enters the listing fetch (fetchStoriesPage / fetchStories).
CallListing(g) ==
    /\ gpc[g] = "idle"
    /\ gpc' = [gpc EXCEPT ![g] = "throttle"]
    /\ gKind' = [gKind EXCEPT ![g] = "listing"]
    /\ UNCHANGED <<now, lastRequest, requestMu, gWake, gReqs, gPasses, gResult>>

\* A goroutine enters FetchCommentTree. The AP News one returns the empty
\* list at once, without throttle and without a request.
CallComments(g) ==
    /\ gpc[g] = "idle"
    /\ gKind' = [gKind EXCEPT ![g] = "comments"]
    /\ IF adapter = "apnews"
       THEN /\ gpc' = [gpc EXCEPT ![g] = "done"]
            /\ gResult' = [gResult EXCEPT ![g] = "ok"]
       ELSE /\ gpc' = [gpc EXCEPT ![g] = "throttle"]
            /\ UNCHANGED gResult
    /\ UNCHANGED <<now, lastRequest, requestMu, gWake, gReqs, gPasses>>

\* throttle(): c.requestMu.Lock(), then the computation of the sleep.
ThrottleLock(g) ==
    /\ gpc[g] = "throttle"
    /\ requestMu = "free"
    /\ requestMu' = g
    /\ gWake' = [gWake EXCEPT ![g] = now + SleepFor(lastRequest, now, MinDelay(adapter))]
    /\ gpc' = [gpc EXCEPT ![g] = "sleep"]
    /\ UNCHANGED <<now, lastRequest, gKind, gReqs, gPasses, gResult>>

\* throttle(): the sleep is over, c.lastRequest = time.Now(), the deferred
\* Unlock, and the return.
ThrottleReturn(g) ==
    /\ gpc[g] = "sleep"
    /\ now >= gWake[g]
    /\ lastRequest' = [zero |-> FALSE, at |-> now]
    /\ requestMu' = "free"
    /\ gPasses' = [gPasses EXCEPT ![g] = Append(@, now)]
    /\ gpc' = [gpc EXCEPT ![g] = "send"]
    /\ gWake' = [gWake EXCEPT ![g] = 0]
    /\ UNCHANGED <<now, gKind, gReqs, gResult>>

\* c.http.Do(req): the request starts.
Do(g) ==
    /\ gpc[g] = "send"
    /\ gReqs' = [gReqs EXCEPT ![g] = Append(@, [at |-> now, respAt |-> now, status |-> "pending"])]
    /\ gpc' = [gpc EXCEPT ![g] = "wait"]
    /\ UNCHANGED <<now, lastRequest, requestMu, gKind, gWake, gPasses, gResult>>

\* c.http.Do returns. The first response of a listing fetch may start the
\* backoff; every other response ends the call.
Respond(g) ==
    /\ gpc[g] = "wait"
    /\ \E status \in Responses :
          /\ gReqs' = [gReqs EXCEPT ![g][Len(gReqs[g])] =
                          [at |-> @.at, respAt |-> now, status |-> status]]
          /\ IF gKind[g] = "listing" /\ Len(gReqs[g]) = 1 /\ RetryOn(adapter, status)
             THEN /\ gpc' = [gpc EXCEPT ![g] = "backoff"]
                  /\ gWake' = [gWake EXCEPT ![g] = now + Backoff]
                  /\ UNCHANGED gResult
             ELSE /\ gpc' = [gpc EXCEPT ![g] = "done"]
                  /\ gResult' = [gResult EXCEPT ![g] =
                         IF CallFails(adapter, gKind[g], status) THEN "error" ELSE "ok"]
                  /\ UNCHANGED gWake
    /\ UNCHANGED <<now, lastRequest, requestMu, gKind, gPasses>>

\* time.Sleep(2 * time.Second) is over; c.throttle() is next.
BackoffDone(g) ==
    /\ gpc[g] = "backoff"
    /\ now >= gWake[g]
    /\ gpc' = [gpc EXCEPT ![g] = "throttle"]
    /\ gWake' = [gWake EXCEPT ![g] = 0]
    /\ UNCHANGED <<now, lastRequest, requestMu, gKind, gReqs, gPasses, gResult>>

\* Time passes.
Tick ==
    /\ now + ClockStep <= MaxTime
    /\ now' = now + ClockStep
    /\ UNCHANGED <<lastRequest, requestMu, gpc, gKind, gWake, gReqs, gPasses, gResult>>

--------------------------------------------------------------------------
(* FetchStoryIDs of every adapter against an arbitrary upstream: the feed   *)
(* key, the requests, the status check, the parse, the empty check, the     *)
(* cache. The throttle and the retry on 429 are modelled above.             *)

Sources == Adapters \cup {"hn"}

FeedKeys == {"listed", "unlisted"}

\* An upstream entry: complete, without a title, or without a link.
EntryKinds == {"ok", "notitle", "nourl"}

EntryLists == UNION {[1..n -> EntryKinds] : n \in 0..MaxEntries}

\* The documents an adapter can be handed: JSON or undecodable bytes for the
\* API adapters, HTML (which always parses) for the scraped ones, RSS, Atom or
\* neither for the feed adapters.
FormatsOf(source) ==
    IF source \in {"hn", "reddit", "devto"} THEN {"json", "garbage"}
    ELSE IF source \in {"lobsters", "tildes", "apnews"} THEN {"html"}
    ELSE {"rss", "atom", "garbage"}

Docs(source) ==
    {[format |-> f, entries |-> e] : f \in FormatsOf(source) \ {"garbage"}, e \in EntryLists}
        \cup {[format |-> "garbage", entries |-> <<>>] : f \in FormatsOf(source) \cap {"garbage"}}

NoDoc == [format |-> "garbage", entries |-> <<>>]

\* resp, err := c.http.Do(req): a transport error, or a status and a body.
\* For a feed key the upstream does not know there is no listing to serve.
Answers(source, key) ==
    {[status |-> "error", doc |-> NoDoc]}
        \cup {[status |-> "500", doc |-> d] : d \in Docs(source)}
        \cup {[status |-> "200", doc |-> d] :
                 d \in {x \in Docs(source) : key = "listed" \/ x.entries = <<>>}}

\* The feed whose listing the adapter requests. Dev.to falls back to its
\* default feed, the single-URL RSS client has one URL whatever the key, the
\* others build the URL from the key.
RequestKey(source, key) ==
    IF source \in {"devto", "rss"} THEN "listed" ELSE key

\* apFeedPaths[feed] / c.feedURLs[feed]: the adapters that look the key up.
LooksUpFeed(source) == source \in {"apnews", "rssmap"}

\* The Hacker News FetchStoryIDs decodes the body whatever the status.
ChecksListingStatus(source) == source # "hn"

\* The entries an adapter keeps: the scraped adapters and the single-URL RSS
\* client skip entries without a title, the feed-map RSS client also those
\* without a link, the JSON adapters keep everything.
Keeps(source, kind) ==
    IF source \in {"hn", "reddit", "devto"} THEN TRUE
    ELSE IF source = "rssmap" THEN kind = "ok"
    ELSE IF source = "apnews" THEN kind = "ok"
    ELSE kind # "notitle"

Story(page, pos, kind) ==
    [page |-> page, pos |-> pos, title |-> kind # "notitle", url |-> kind # "nourl"]

\* The items an adapter makes of the entries of one document.
Convert(source, entries, page) ==
    LET all == [i \in 1..Len(entries) |-> [pos |-> i, kind |-> entries[i]]]
        Kept(e) == Keeps(source, e.kind)
        kept == SelectSeq(all, Kept)
    IN  [i \in 1..Len(kept) |-> Story(page, kept[i].pos, kept[i].kind)]

Failed(err) == [err |-> err, stories |-> <<>>]
Listed(stories) == [err |-> "", stories |-> stories]

\* fetchStories / fetchStoriesPage of the API and scraped adapters, and the
\* body of the Hacker News FetchStoryIDs: transport error, status check,
\* decode, conversion.
PageOf(source, resp, page) ==
    IF resp.status = "error" THEN Failed("fetch")
    ELSE IF resp.status # "200" /\ ChecksListingStatus(source) THEN Failed("status")
    ELSE IF resp.doc.format = "garbage" THEN Failed("decode")
    ELSE Listed(Convert(source, resp.doc.entries, page))

\* parseRSS and parseAtom of the single-URL RSS client: an error when the
\* document is of another format or has no items.
parseRSS(doc) ==
    IF doc.format # "rss" \/ doc.entries = <<>> THEN Failed("rss")
    ELSE Listed(Convert("rss", doc.entries, 1))

parseAtom(doc) ==
    IF doc.format # "atom" \/ doc.entries = <<>> THEN Failed("atom")
    ELSE Listed(Convert("rss", doc.entries, 1))

\* parseFeed: RSS 2.0 first, then Atom.
parseFeed(doc) ==
    LET rss == parseRSS(doc)
        atom == parseAtom(doc)
    IN  IF rss.err = "" /\ Len(rss.stories) > 0 THEN rss
        ELSE IF atom.err = "" /\ Len(atom.stories) > 0 THEN atom
        ELSE Failed("parse")

\* The single-URL RSS FetchStoryIDs up to the parse.
FeedOf(resp) ==
    IF resp.status = "error" THEN Failed("fetch")
    ELSE IF resp.status # "200" THEN Failed("status")
    ELSE parseFeed(resp.doc)

\* A pagination that gives up on any failed page.
EveryPageErrorIsFatal(page) == TRUE

\* if page == 1 { return nil, err }; break
PageErrorIsFatal(page) == page = 1

\* The end of FetchStoryIDs: the error, the empty check of the adapters that
\* have one, or the new cache and the identifiers.
ReturnListing(r) ==
    /\ lpc' = "returned"
    /\ IF r.err # ""
       THEN lResult' = Failed(r.err) /\ UNCHANGED lCache
       ELSE IF r.stories = <<>> /\ RejectsEmpty(lSource)
            THEN lResult' = Failed("no stories") /\ UNCHANGED lCache
            ELSE /\ lResult' = Listed(r.stories)
                 /\ lCache' = IF lSource = "hn" THEN lCache ELSE r.stories

IdleListing ==
    /\ lSource = "lobsters"
    /\ lFeed = "listed"
    /\ lpc = "call"
    /\ lStories = <<>>
    /\ lGot = <<>>
    /\ lResult = Listed(<<>>)
    /\ lCache = <<>>
    /\ lItem = [err |-> "none", title |-> FALSE, url |-> FALSE]

InitListing ==
    /\ lSource \in Sources
    /\ lFeed \in FeedKeys
    /\ lpc = "call"
    /\ lStories = <<>>
    /\ lGot = <<>>
    /\ lResult = Listed(<<>>)
    /\ lCache = <<>>
    /\ lItem = [err |-> "none", title |-> FALSE, url |-> FALSE]

\* FetchStoryIDs up to its first response and what follows it without
\* another request.
ListingCall ==
    /\ lpc = "call"
    /\ IF LooksUpFeed(lSource) /\ lFeed = "unlisted"
       THEN /\ ReturnListing(Failed("unknown feed"))
            /\ UNCHANGED <<lStories, lGot>>
       ELSE \E resp \in Answers(lSource, RequestKey(lSource, lFeed)) :
              /\ lGot' = <<resp>>
              /\ IF lSource \in {"lobsters", "tildes"}
                 THEN LET r == PageOf(lSource, resp, 1)
                      IN  IF r.err # "" /\ PageErrorIsFatal(1)
                          THEN ReturnListing(r) /\ UNCHANGED lStories
                          ELSE /\ lStories' = lStories \o r.stories
                               /\ lpc' = "page2"
                               /\ UNCHANGED <<lResult, lCache>>
                 ELSE IF lSource = "rssmap"
                 THEN IF resp.status = "error"
                      THEN ReturnListing(Failed("fetch")) /\ UNCHANGED lStories
                      ELSE IF resp.status # "200"
                      THEN ReturnListing(Failed("status")) /\ UNCHANGED lStories
                      ELSE IF resp.doc.format = "rss" /\ Len(resp.doc.entries) > 0
                      THEN /\ ReturnListing(Listed(Convert(lSource, resp.doc.entries, 1)))
                           /\ UNCHANGED lStories
                      ELSE /\ lpc' = "refetch"
                           /\ UNCHANGED <<lStories, lResult, lCache>>
                 ELSE IF lSource = "rss"
                 THEN ReturnListing(FeedOf(resp)) /\ UNCHANGED lStories
                 ELSE ReturnListing(PageOf(lSource, resp, 1)) /\ UNCHANGED lStories
    /\ UNCHANGED <<lSource, lFeed, lItem>>

\* Lobsters and Tildes: the second page and the end of the call.
ListingPage2 ==
    /\ lpc = "page2"
    /\ \E resp \in Answers(lSource, RequestKey(lSource, lFeed)) :
          /\ lGot' = Append(lGot, resp)
          /\ LET r == PageOf(lSource, resp, 2)
             IN  IF r.err # "" /\ PageErrorIsFatal(2)
                 THEN ReturnListing(r) /\ UNCHANGED lStories
                 ELSE /\ lStories' = lStories \o r.stories
                      /\ ReturnListing(Listed(lStories'))
    /\ UNCHANGED <<lSource, lFeed, lItem>>

\* The feed-map RSS client: the second request of fetchRSSFeed, whose body
\* is parsed as Atom, and the end of the call.
ListingRefetch ==
    /\ lpc = "refetch"
    /\ \E resp \in Answers(lSource, RequestKey(lSource, lFeed)) :
          /\ lGot' = Append(lGot, resp)
          /\ IF resp.status = "error"
             THEN ReturnListing(Failed("refetch"))
             ELSE IF resp.doc.format = "atom" /\ Len(resp.doc.entries) > 0
             THEN ReturnListing(Listed(Convert(lSource, resp.doc.entries, 1)))
             ELSE ReturnListing(Failed("parse"))
    /\ UNCHANGED <<lSource, lFeed, lStories, lItem>>

\* FetchItem after the call: the cached item of the identifier, or, on
\* Hacker News, whatever the upstream body decodes to.
ListedFetchItem ==
    /\ lpc = "returned"
    /\ lpc' = "fetched"
    /\ IF lSource = "hn"
       THEN \E resp \in Answers("hn", "listed") :
              /\ Len(resp.doc.entries) <= 1
              /\ lItem' =
                    IF resp.status = "error"
                    THEN [err |-> "fetch", title |-> FALSE, url |-> FALSE]
                    ELSE IF resp.doc.format = "garbage"
                    THEN [err |-> "decode", title |-> FALSE, url |-> FALSE]
                    ELSE [err |-> "",
                          title |-> resp.doc.entries \in {<<"ok">>, <<"nourl">>},
                          url |-> resp.doc.entries \in {<<"ok">>, <<"notitle">>}]
              /\ lGot' = Append(lGot, resp)
       ELSE /\ \E id \in 1..(2 * MaxEntries) :
                 lItem' = IF id \in 1..Len(lCache)
                          THEN [err |-> "", title |-> lCache[id].title, url |-> lCache[id].url]
                          ELSE [err |-> "not found", title |-> FALSE, url |-> FALSE]
            /\ UNCHANGED lGot
    /\ UNCHANGED <<lSource, lFeed, lStories, lResult, lCache>>

--------------------------------------------------------------------------
(* FetchCommentTree of Reddit, Dev.to, Lobsters and Tildes: the locator in  *)
(* item.Type, one request, and the parse of the thread document. The thread *)
(* served is the forest kidsOf, with the comments in suppressed being those *)
(* the parser drops (no author, deleted author, no author and no text).     *)

ThreadSources == {"reddit", "devto", "lobsters", "tildes"}

\* The entries of a thread document: a comment with its author, a comment
\* without an author (and, on the scraped pages, without text), and in a
\* Reddit listing a comment by "[deleted]" and an entry of another kind than
\* t1 (the "more" stub).
ThreadEntries(source) ==
    IF source = "reddit" THEN {"comment", "noauthor", "deleted", "more"}
    ELSE {"comment", "noauthor"}

\* A parser that returns every entry.
SkipsNothing(entry) == FALSE

\* RedditClient.parseComments / parseComment: child.Kind != "t1", and
\* rc.Author == "" || rc.Author == "[deleted]"
RedditSkips(entry) == entry = "more" \/ entry \in {"noauthor", "deleted"}

\* The entries an adapter's parser drops.
Drops(source, entry) ==
    IF source = "reddit" THEN RedditSkips(entry) ELSE entry = "noauthor"

\* Values of item.Type: empty, the placeholder "story", a Reddit permalink,
\* a Tildes topic path, a Lobsters short identifier.
TypeStory == <<"s", "t", "o", "r", "y">>
TypePermalink == <<"/", "r", "/", "g", "o">>
TypeTopicPath == <<"/", "~", "g", "o">>
TypeShortID == <<"a", "b", "c">>
TypeValues == {<<>>, TypeStory, TypePermalink, TypeTopicPath, TypeShortID}

\* strings.HasPrefix
HasPrefix(str, prefix) ==
    Len(str) >= Len(prefix) /\ SubSeq(str, 1, Len(prefix)) = prefix

\* A FetchCommentTree that takes any Type for a locator.
AnyTypeLocates(source, type) == TRUE

\* Whether item.Type locates the thread. Dev.to uses item.ID instead.
Locates(source, type) ==
    IF source = "reddit" THEN type # <<>> /\ HasPrefix(type, <<"/", "r", "/">>)
    ELSE IF source = "lobsters" THEN type # <<>> /\ type # TypeStory
    ELSE IF source = "tildes" THEN type # <<>> /\ type # TypeStory /\ HasPrefix(type, <<"/">>)
    ELSE TRUE

\* The answers to the thread request: no connection, or a status with the
\* thread, an empty document, or bytes that do not decode.
ThreadAnswers ==
    {[status |-> "error", body |-> "empty"]}
        \cup {[status |-> st, body |-> b] :
                 st \in {"200", "500"}, b \in {"thread", "empty", "garbage"}}

\* The nesting depth of a comment in the document served: Reddit's depth
\* field, the data-comment-depth attribute of Tildes, the count of enclosing
\* ol.comments of Lobsters.
RECURSIVE NestingDepth(_)
NestingDepth(id) ==
    LET parents == {q \in DOMAIN kidsOf : \E i \in 1..Len(kidsOf[q]) : kidsOf[q][i] = id}
        parent == CHOOSE q \in parents : TRUE
    IN  IF parent = 0 THEN 0 ELSE NestingDepth(parent) + 1

\* A parser that expands every reply.
AlwaysWithin(limit, depth) == TRUE

\* maxDepth <= 0 || depth < maxDepth
WithinDepth(limit, depth) == limit <= 0 \/ depth < limit

\* DevtoClient.parseComments / parseComment: depth counted by the recursion.
RECURSIVE DevtoParse(_, _, _)
DevtoParse(idlist, depth, limit) ==
    IF idlist = <<>> THEN <<>>
    ELSE LET id == Head(idlist)
             rest == DevtoParse(Tail(idlist), depth, limit)
         IN  IF id \in suppressed THEN rest
             ELSE IF WithinDepth(limit, depth) /\ Len(kidsOf[id]) > 0
                  THEN <<Comment(id, depth, DevtoParse(kidsOf[id], ChildDepth(depth), limit))>> \o rest
                  ELSE <<Comment(id, depth, <<>>)>> \o rest

\* RedditClient.parseComments / parseComment: depth read from the document.
RECURSIVE RedditParse(_, _)
RedditParse(idlist, limit) ==
    IF idlist = <<>> THEN <<>>
    ELSE LET id == Head(idlist)
             rest == RedditParse(Tail(idlist), limit)
         IN  IF RedditSkips(cEntry[id]) THEN rest
             ELSE IF WithinDepth(limit, NestingDepth(id))
                  THEN <<Comment(id, NestingDepth(id), RedditParse(kidsOf[id], limit))>> \o rest
                  ELSE <<Comment(id, NestingDepth(id), <<>>)>> \o rest

\* The comment elements of the page in document order.
RECURSIVE DocumentOrder(_)
DocumentOrder(idlist) ==
    IF idlist = <<>> THEN <<>>
    ELSE <<Head(idlist)>> \o DocumentOrder(kidsOf[Head(idlist)]) \o DocumentOrder(Tail(idlist))

\* LobstersClient.parseComments and TildesClient.parseComments: every comment
\* element of the page in one flat list; maxDepth is not a parameter.
ScrapedParse(idlist) ==
    LET all == DocumentOrder(idlist)
        Kept(id) == id \notin suppressed
        kept == SelectSeq(all, Kept)
    IN  [i \in 1..Len(kept) |-> Comment(kept[i], NestingDepth(kept[i]), <<>>)]

ParseThread(source, idlist, limit) ==
    IF source = "devto" THEN DevtoParse(idlist, 0, limit)
    ELSE IF source = "reddit" THEN RedditParse(idlist, limit)
    ELSE ScrapedParse(idlist)

\* What FetchCommentTree makes of the response.
ThreadOf(source, resp, limit) ==
    IF resp.status = "error" THEN TreeErr
    ELSE IF resp.status # "200" /\ ChecksCommentStatus(source) THEN TreeErr
    ELSE IF resp.body = "garbage" /\ source \in {"reddit", "devto"} THEN TreeErr
    ELSE IF resp.body = "empty" /\ source = "reddit" THEN TreeErr
    ELSE IF resp.body = "thread" THEN TreeOk(ParseThread(source, kidsOf[0], limit))
    ELSE TreeOk(<<>>)

IdleThread ==
    /\ cSource = "hn"
    /\ cType = <<>>
    /\ cGot = <<>>
    /\ cEntry = <<>>

\* A thread of up to MaxComments comments, any adapter, any Type, any maxDepth.
InitThread ==
    /\ cSource \in ThreadSources
    /\ \E n \in 0..MaxComments : \E parent \in [1..n -> 0..n] :
          /\ \A i \in 1..n : parent[i] < i
          /\ kidsOf = [p \in 0..n |-> Ascending({i \in 1..n : parent[i] = p})]
          /\ cEntry \in [1..n -> ThreadEntries(cSource)]
          /\ suppressed = {i \in 1..n : Drops(cSource, cEntry[i])}
    /\ down = {}
    /\ maxDepth \in (0 - 1)..MaxDepthArg
    /\ tpc = "call"
    /\ tree = TreeOk(<<>>)
    /\ batched = {}
    /\ cType \in TypeValues
    /\ cGot = <<>>

\* FetchCommentTree(item, maxDepth) of Reddit, Dev.to, Lobsters or Tildes.
FetchThread ==
    /\ cSource \in ThreadSources
    /\ tpc = "call"
    /\ tpc' = "returned"
    /\ IF ~Locates(cSource, cType)
       THEN tree' = TreeErr /\ UNCHANGED cGot
       ELSE \E resp \in ThreadAnswers :
              /\ cGot' = <<resp>>
              /\ tree' = ThreadOf(cSource, resp, maxDepth)
    /\ UNCHANGED <<kidsOf, suppressed, down, maxDepth, batched, cSource, cType, cEntry>>

--------------------------------------------------------------------------
(* main: the -source flag selects the client; NewRedditClient normalises   *)
(* the community name.                                                     *)

\* The characters of the -source values considered.
Chars == {"r", "R", "/", "x"}

Strings(n) == UNION {[1..k -> Chars] : k \in 0..n}

\* "hn", "l" and an http:// address, next to every short string of Chars.
SourceFlags ==
    Strings(MaxName) \cup {<<"h", "n">>, <<"l">>, <<"h", "t", "t", "p", ":", "/", "/", "x">>}

\* strings.ToLower
ToLower(str) == [i \in 1..Len(str) |-> IF str[i] = "R" THEN "r" ELSE str[i]]

\* strings.TrimPrefix
TrimPrefix(str, prefix) ==
    IF HasPrefix(str, prefix) THEN SubSeq(str, Len(prefix) + 1, Len(str)) ELSE str

\* NewRedditClient(subreddit): the subreddit field of the client
NewRedditClient(subreddit) ==
    TrimPrefix(TrimPrefix(subreddit, <<"r", "/">>), <<"/", "r", "/">>)

\* RedditClient.Name: fmt.Sprintf("r/%s", c.subreddit)
RedditName(subreddit) == <<"r", "/">> \o subreddit

NoSource == [kind |-> "none", subreddit |-> <<>>]
Constructed(kind, subreddit) == [kind |-> kind, subreddit |-> subreddit]

\* main was not run.
IdleMain ==
    /\ sourceFlag = <<>>
    /\ client = NoSource

InitMain ==
    /\ sourceFlag \in SourceFlags
    /\ client = NoSource

\* main: the switch over the lower-cased flag.
Main ==
    /\ client = NoSource
    /\ LET sourceLower == ToLower(sourceFlag)
       IN  client' =
             IF sourceLower = <<"h", "n">> THEN Constructed("hn", <<>>)
             ELSE IF sourceLower = <<"l">> THEN Constructed("lobsters", <<>>)
             ELSE IF HasPrefix(sourceLower, <<"r", "/">>) \/ HasPrefix(sourceLower, <<"/", "r", "/">>)
                  THEN Constructed("reddit", NewRedditClient(sourceFlag))
             ELSE IF HasPrefix(sourceLower, <<"h", "t", "t", "p", ":", "/", "/">>)
                  THEN Constructed("rss", <<>>)
             ELSE Constructed("exit", <<>>)
    /\ UNCHANGED sourceFlag

--------------------------------------------------------------------------
(* StoryURL of the adapters that keep routing data in item.Type.           *)

URLSources == {"reddit", "lobsters", "tildes", "devto", "feed"}

TypeArticle == <<"a", "r", "t", "i", "c", "l", "e">>

\* Values of item.Type: those of TypeValues, Dev.to's placeholder, and a
\* community path without its leading slash.
URLTypes == TypeValues \cup {TypeArticle, <<"r", "/", "g", "o">>}

\* Values of item.URL: empty, or a link.
URLValues == {<<>>, <<"https://example.org/a">>}

\* A StoryURL that takes any non-empty Type for routing data.
AnyTypeRoutes(source, type) == type # <<>>

\* The condition under which StoryURL builds the URL from item.Type.
Routes(source, type) ==
    IF source = "reddit" THEN type # <<>> /\ HasPrefix(type, <<"/", "r", "/">>)
    ELSE IF source \in {"lobsters", "tildes"} THEN type # <<>> /\ type # TypeStory
    ELSE IF source = "devto" THEN type # <<>> /\ type # TypeArticle
    ELSE FALSE

\* What StoryURL puts in front of item.Type.
BaseOf(source) ==
    IF source = "reddit" THEN <<"https://www.reddit.com">>
    ELSE IF source = "lobsters" THEN <<"https://lobste.rs", "/s/">>
    ELSE IF source = "tildes" THEN <<"https://tildes.net">>
    ELSE <<"https://dev.to">>

StoryURLOf(source, item) ==
    IF Routes(source, item.type) THEN BaseOf(source) \o item.type ELSE item.url

\* No StoryURL call.
IdleStoryURL ==
    /\ uSource = "feed"
    /\ uItem = [type |-> <<>>, url |-> <<>>]
    /\ upc = "call"
    /\ uResult = <<>>

InitStoryURL ==
    /\ uSource \in URLSources
    /\ uItem \in [type : URLTypes, url : URLValues]
    /\ upc = "call"
    /\ uResult = <<>>

\* StoryURL(item): no request, no lock, no assignment to the client.
StoryURL ==
    /\ upc = "call"
    /\ upc' = "returned"
    /\ uResult' = StoryURLOf(uSource, uItem)
    /\ UNCHANGED <<uSource, uItem>>

--------------------------------------------------------------------------
(* FeedNames(), FeedLabels() and the feed maps of the adapters.            *)

FeedAdapters ==
    {"hn", "lobsters", "tildes", "reddit", "devto", "rss",
     "bbc", "npr", "google", "reuters", "apnews"}

\* The adapters whose FetchStoryIDs looks the feed key up in a map.
MapAdapters == {"bbc", "npr", "google", "reuters", "apnews"}

\* A FeedNames() with a key the map does not have.
FeedNamesAndMore(a) ==
    IF a = "bbc" THEN <<"top", "world", "uk", "business", "tech", "science", "health", "arts">>
    ELSE <<"feed", "more">>

\* FeedNames()
FeedNamesOf(a) ==
    IF a = "hn" THEN <<"topstories", "newstories", "beststories", "askstories", "showstories">>
    ELSE IF a = "lobsters" THEN <<"", "newest", "recent">>
    ELSE IF a = "tildes" THEN <<"", "new", "votes", "comments">>
    ELSE IF a = "reddit" THEN <<"hot", "new", "top", "rising", "best">>
    ELSE IF a = "devto" THEN <<"top", "latest", "rising", "week">>
    ELSE IF a = "rss" THEN <<"feed">>
    ELSE IF a = "bbc"
         THEN <<"top", "world", "uk", "business", "tech", "science", "health", "entertain">>
    ELSE IF a = "npr"
         THEN <<"news", "world", "us", "politics", "business", "tech", "science", "health",
                "culture">>
    ELSE IF a = "google"
         THEN <<"top", "world", "us", "business", "tech", "science", "health", "sports",
                "entertain">>
    ELSE IF a = "reuters" THEN <<"world", "business", "tech", "sports", "life">>
    ELSE <<"top", "world", "us", "politics", "business", "tech", "science", "health",
           "sports", "entertain">>

\* FeedLabels()
FeedLabelsOf(a) ==
    IF a = "hn" THEN <<"Top", "New", "Best", "Ask", "Show">>
    ELSE IF a = "lobsters" THEN <<"Hot", "New", "Recent">>
    ELSE IF a = "tildes" THEN <<"Activity", "New", "Votes", "Comments">>
    ELSE IF a = "reddit" THEN <<"Hot", "New", "Top", "Rising", "Best">>
    ELSE IF a = "devto" THEN <<"Top", "Latest", "Rising", "Week">>
    ELSE IF a = "rss" THEN <<"Items">>
    ELSE IF a = "bbc"
         THEN <<"Top", "World", "UK", "Business", "Tech", "Science", "Health", "Arts">>
    ELSE IF a = "npr"
         THEN <<"News", "World", "US", "Politics", "Business", "Tech", "Science", "Health",
                "Culture">>
    ELSE IF a = "google"
         THEN <<"Top", "World", "US", "Business", "Tech", "Science", "Health", "Sports",
                "Arts">>
    ELSE IF a = "reuters" THEN <<"World", "Business", "Tech", "Sports", "Life">>
    ELSE <<"Top", "World", "US", "Politics", "Business", "Tech", "Science", "Health",
           "Sports", "Arts">>

\* The keys of bbcFeeds, nprFeeds, googleNewsFeeds, reutersFeeds, apFeedPaths.
FeedMapKeys(a) ==
    IF a = "bbc"
    THEN {"top", "world", "uk", "business", "tech", "science", "health", "entertain"}
    ELSE IF a = "npr"
    THEN {"news", "world", "us", "politics", "business", "tech", "science", "health", "culture"}
    ELSE IF a = "google"
    THEN {"top", "world", "us", "business", "tech", "science", "health", "sports", "entertain"}
    ELSE IF a = "reuters" THEN {"world", "business", "tech", "sports", "life"}
    ELSE IF a = "apnews"
    THEN {"top", "world", "us", "politics", "business", "tech", "science", "health", "sports",
          "entertain"}
    ELSE {}

\* No feed is selected.
IdleFeeds ==
    /\ fAdapter = "hn"
    /\ fIndex = 1
    /\ fpc = "pick"
    /\ fLabel = <<>>
    /\ fKnown = FALSE

\* Any adapter and any position of its FeedNames().
InitFeeds ==
    /\ fAdapter \in FeedAdapters
    /\ fIndex \in 1..Len(FeedNamesOf(fAdapter))
    /\ fpc = "pick"
    /\ fLabel = <<>>
    /\ fKnown = FALSE

\* The feed at fIndex is shown under FeedLabels()[i] and fetched with
\* FetchStoryIDs(FeedNames()[i]), which on the map adapters starts with
\* the lookup  path, ok := feeds[feed].
UseFeed ==
    /\ fpc = "pick"
    /\ fpc' = "used"
    /\ fLabel' = IF fIndex <= Len(FeedLabelsOf(fAdapter))
                 THEN <<FeedLabelsOf(fAdapter)[fIndex]>> ELSE <<>>
    /\ fKnown' = (FeedNamesOf(fAdapter)[fIndex] \in FeedMapKeys(fAdapter))
    /\ UNCHANGED <<fAdapter, fIndex>>

--------------------------------------------------------------------------
(* Item.TimeAgo: the age d = time.Since(time.Unix(i.Time, 0)) as words.    *)

\* A Duration is counted in half seconds here, so that an age has a part
\* below the second: time.Second
Second == 2

Minute == 60 * Second
Hour == 60 * Minute

\* The ages tried, in seconds: around every multiple, up to MaxCount + 1, of
\* a minute, an hour, a day, 30 days and 365 days; the examples 90 seconds
\* and 25 hours; a time in the future.
AgeSeconds ==
    {k * u + e : k \in 0..(MaxCount + 1),
                 u \in {60, 3600, 86400, 30 * 86400, 365 * 86400},
                 e \in {0 - 1, 0, 1}}
        \cup {90, 25 * 3600, 0 - 3600}

\* The same with the half second that time.Since may add.
Ages == {sec * Second + half : sec \in AgeSeconds, half \in {0, 1}}

JustNow == <<"just now">>

\* A wording that has no singular.
AlwaysPlural(count, unit) == <<count, unit \o "s ago">>

\* "1 unit ago" for a count of 1, "%d units ago" otherwise
Wording(count, unit) ==
    IF count = 1 THEN <<1, unit \o " ago">> ELSE <<count, unit \o "s ago">>

\* The switch of TimeAgo; d.Hours() >= n is d >= n * Hour, and
\* int(d.Hours() / n) is d \div (n * Hour) for the positive d of a case.
TimeAgo(d) ==
    IF d >= 24 * 365 * Hour THEN Wording(d \div (24 * 365 * Hour), "year")
    ELSE IF d >= 24 * 30 * Hour THEN Wording(d \div (24 * 30 * Hour), "month")
    ELSE IF d >= 24 * Hour THEN Wording(d \div (24 * Hour), "day")
    ELSE IF d >= Hour THEN Wording(d \div Hour, "hour")
    ELSE IF d >= Minute THEN Wording(d \div Minute, "minute")
    ELSE JustNow

\* No TimeAgo call.
IdleTimeAgo ==
    /\ aSince = 0
    /\ apc = "call"
    /\ aResult = <<>>

InitTimeAgo ==
    /\ aSince \in Ages
    /\ apc = "call"
    /\ aResult = <<>>

\* i.TimeAgo()
CallTimeAgo ==
    /\ apc = "call"
    /\ apc' = "returned"
    /\ aResult' = TimeAgo(aSince)
    /\ UNCHANGED aSince

--------------------------------------------------------------------------
(* compareVersions and UpdateInfo.HasUpdate.                               *)

\* The characters of the version strings considered.
VersionChars == {"v", ".", "0", "1"}

Versions == UNION {[1..k -> VersionChars] : k \in 0..MaxVersion}

NilInfo == [latest |-> <<"nil">>, current |-> <<"nil">>]

\* strings.Split(str, "."): the pieces between the dots, one piece for a
\* string without a dot (the empty string included).
RECURSIVE SplitDots(_)
SplitDots(str) ==
    IF \A i \in 1..Len(str) : str[i] # "."
    THEN <<str>>
    ELSE LET dot == CHOOSE i \in 1..Len(str) :
                        str[i] = "." /\ \A j \in 1..(i - 1) : str[j] # "."
         IN  <<SubSeq(str, 1, dot - 1)>> \o SplitDots(SubSeq(str, dot + 1, Len(str)))

\* The value of a string of digits.
RECURSIVE Decimal(_)
Decimal(digits) ==
    IF digits = <<>> THEN 0
    ELSE 10 * Decimal(SubSeq(digits, 1, Len(digits) - 1))
            + (IF digits[Len(digits)] = "1" THEN 1 ELSE 0)

\* n, _ = strconv.Atoi(part): 0 when part is not a number
Atoi(part) ==
    IF part # <<>> /\ \A i \in 1..Len(part) : part[i] \in {"0", "1"}
    THEN Decimal(part)
    ELSE 0

\* A component that is missing counts as the largest number.
MissingIsMost(parts, i) == IF i <= Len(parts) THEN Atoi(parts[i]) ELSE 1000

\* var n int; if i < len(parts) { n, _ = strconv.Atoi(parts[i]) }
\* (i counts from 1 here)
NumberAt(parts, i) == IF i <= Len(parts) THEN Atoi(parts[i]) ELSE 0

\* The loop of compareVersions from position i on.
RECURSIVE CompareFrom(_, _, _)
CompareFrom(parts1, parts2, i) ==
    IF i > Len(parts1) /\ i > Len(parts2) THEN 0
    ELSE LET n1 == NumberAt(parts1, i)
             n2 == NumberAt(parts2, i)
         IN  IF n1 > n2 THEN 1
             ELSE IF n1 < n2 THEN 0 - 1
             ELSE CompareFrom(parts1, parts2, i + 1)

compareVersions(v1, v2) ==
    CompareFrom(SplitDots(TrimPrefix(v1, <<"v">>)), SplitDots(TrimPrefix(v2, <<"v">>)), 1)

\* u != nil && u.LatestVersion != "" && u.LatestVersion != u.CurrentVersion &&
\*     compareVersions(u.LatestVersion, u.CurrentVersion) > 0
HasUpdate(u) ==
    /\ u # NilInfo
    /\ u.latest # <<>>
    /\ u.latest # u.current
    /\ compareVersions(u.latest, u.current) > 0

\* No HasUpdate call.
IdleVersion ==
    /\ vInfo = NilInfo
    /\ vpc = "call"
    /\ vCompared = 0
    /\ vHasUpdate = FALSE

InitVersion ==
    /\ vInfo \in {NilInfo} \cup [latest : Versions, current : Versions]
    /\ vpc = "call"
    /\ vCompared = 0
    /\ vHasUpdate = FALSE

\* u.HasUpdate(), and the comparison it rests on.
CallHasUpdate ==
    /\ vpc = "call"
    /\ vpc' = "returned"
    /\ vCompared' = IF vInfo = NilInfo THEN 0 ELSE compareVersions(vInfo.latest, vInfo.current)
    /\ vHasUpdate' = HasUpdate(vInfo)
    /\ UNCHANGED vInfo

--------------------------------------------------------------------------
(* CheckForUpdate: the release endpoint behind a cache file.               *)

\* checkInterval = 24 * time.Hour, in hours
CheckInterval == 24

\* The clock moves in steps of half an interval.
ClockTick == CheckInterval \div 2

CurrentVersions == {"", "dev", "1.0.0"}

NoCache == [lastCheck |-> 0 - 1]
NoCall == [version |-> "", fresh |-> FALSE, asked |-> FALSE, result |-> "none"]

\* err == nil && time.Since(cache.LastCheck) < checkInterval
Fresh(cache, at) == cache # NoCache /\ at - cache.lastCheck < CheckInterval

Called(version, fresh, asked, result) ==
    [version |-> version, fresh |-> fresh, asked |-> asked, result |-> result]

\* No CheckForUpdate call.
IdleUpdate ==
    /\ kNow = 0
    /\ kDirOk = TRUE
    /\ kCache = NoCache
    /\ kQueries = <<>>
    /\ kLast = NoCall

\* No cache file yet; the cache directory can be made, or it cannot.
InitUpdate ==
    /\ kNow = 0
    /\ kDirOk \in BOOLEAN
    /\ kCache = NoCache
    /\ kQueries = <<>>
    /\ kLast = NoCall

\* CheckForUpdate(currentVersion) for "" and "dev": return nil
CheckDevVersion ==
    \E version \in {"", "dev"} :
        /\ kLast' = Called(version, Fresh(kCache, kNow), FALSE, "nil")
        /\ UNCHANGED <<kNow, kDirOk, kCache, kQueries>>

\* CheckForUpdate on a machine without a cache directory:
\* return checkGitHubRelease(currentVersion)
CheckWithoutCacheDir ==
    /\ ~kDirOk
    /\ Len(kQueries) < MaxChecks
    /\ \E version \in CurrentVersions \ {"", "dev"}, answered \in BOOLEAN :
          kLast' = Called(version, FALSE, TRUE, IF answered THEN "fetched" ELSE "nil")
    /\ kQueries' = Append(kQueries, kNow)
    /\ UNCHANGED <<kNow, kDirOk, kCache>>

\* CheckForUpdate with a fresh cache file: the answer is made of the file.
CheckFromCache ==
    /\ kDirOk
    /\ Fresh(kCache, kNow)
    /\ \E version \in CurrentVersions \ {"", "dev"} :
          kLast' = Called(version, TRUE, FALSE, "cached")
    /\ UNCHANGED <<kNow, kDirOk, kCache, kQueries>>

\* CheckForUpdate with no cache file, an unreadable one or an old one:
\* checkGitHubRelease, and saveCache when it returned an info. saveCache's
\* error is dropped, so the file may stay as it was.
CheckRelease ==
    /\ kDirOk
    /\ ~Fresh(kCache, kNow)
    /\ Len(kQueries) < MaxChecks
    /\ kQueries' = Append(kQueries, kNow)
    /\ \E version \in CurrentVersions \ {"", "dev"}, answered \in BOOLEAN, saved \in BOOLEAN :
          /\ kLast' = Called(version, FALSE, TRUE, IF answered THEN "fetched" ELSE "nil")
          /\ kCache' = IF answered /\ saved THEN [lastCheck |-> kNow] ELSE kCache
    /\ UNCHANGED <<kNow, kDirOk>>

\* Time passes between two calls.
ClockAdvance ==
    /\ kNow < MaxClock * ClockTick
    /\ kNow' = kNow + ClockTick
    /\ UNCHANGED <<kDirOk, kCache, kQueries, kLast>>

--------------------------------------------------------------------------
(* The throttled adapters, whole calls: FetchStoryIDs is the listing fetch  *)
(* above followed by the cache replacement under c.cacheMu.Lock();          *)
(* FetchItem and FetchItems read under c.cacheMu.RLock(); FetchCommentTree  *)
(* is the comments fetch above and touches no cache.                        *)

\* A FetchItem that called c.throttle() first.
LookupThrottled == "throttle"

\* Where FetchItem / FetchItems start: their first statement that can wait
\* is c.cacheMu.RLock().
LookupStart == "rlock"

\* The variables of the cache other than the mutex, and the variables of the
\* throttle other than the goroutines' positions and results.
cacheData == <<adapter, storyCache, wpc, wStories, wI, fetchCount, wResult,
               lastIds, prevIds, committed,
               rpc, rOp, rIds, rI, rItems, rErr, rSeen, rQuiet, rLastIds, rPrevIds>>
throttleData == <<now, lastRequest, requestMu, gWake, gReqs, gPasses>>

IdleLocks == gHolds = [g \in Goroutines |-> "none"]

\* A goroutine enters FetchItem or FetchItems.
LookupCall(g) ==
    /\ gpc[g] = "idle"
    /\ gpc' = [gpc EXCEPT ![g] = LookupStart]
    /\ gKind' = [gKind EXCEPT ![g] = "lookup"]
    /\ UNCHANGED <<cacheMu, gHolds, gResult, cacheData, throttleData>>

\* c.cacheMu.RLock(): waits while a writer holds the mutex.
LookupRLock(g) ==
    /\ gpc[g] = "rlock"
    /\ ~cacheMu.writer
    /\ cacheMu' = [cacheMu EXCEPT !.readers = @ + 1]
    /\ gHolds' = [gHolds EXCEPT ![g] = "r"]
    /\ gpc' = [gpc EXCEPT ![g] = "read"]
    /\ UNCHANGED <<gKind, gResult, cacheData, throttleData>>

\* The map lookups, c.cacheMu.RUnlock() and the return; FetchItem fails when
\* the identifier is not cached.
LookupRUnlock(g) ==
    /\ gpc[g] = "read"
    /\ cacheMu' = [cacheMu EXCEPT !.readers = @ - 1]
    /\ gHolds' = [gHolds EXCEPT ![g] = "none"]
    /\ gpc' = [gpc EXCEPT ![g] = "done"]
    /\ \E found \in BOOLEAN :
          gResult' = [gResult EXCEPT ![g] = IF found THEN "ok" ELSE "error"]
    /\ UNCHANGED <<gKind, cacheData, throttleData>>

\* FetchStoryIDs after a listing fetch that found no story: the adapters
\* that check len(stories) == 0 return the error, without the lock.
StoreEmpty(g) ==
    /\ gpc[g] = "done" /\ gKind[g] = "listing" /\ gResult[g] = "ok"
    /\ RejectsEmpty(adapter)
    /\ gpc' = [gpc EXCEPT ![g] = "returned"]
    /\ gResult' = [gResult EXCEPT ![g] = "error"]
    /\ UNCHANGED <<cacheMu, gHolds, gKind, cacheData, throttleData>>

\* FetchStoryIDs after a successful listing fetch: c.cacheMu.Lock(), which
\* waits until no reader and no writer holds the mutex.
StoreLock(g) ==
    /\ gpc[g] = "done" /\ gKind[g] = "listing" /\ gResult[g] = "ok"
    /\ ~cacheMu.writer /\ cacheMu.readers = 0
    /\ cacheMu' = [cacheMu EXCEPT !.writer = TRUE]
    /\ gHolds' = [gHolds EXCEPT ![g] = "w"]
    /\ gpc' = [gpc EXCEPT ![g] = "store"]
    /\ UNCHANGED <<gKind, gResult, cacheData, throttleData>>

\* The replacement of the map, c.cacheMu.Unlock() and the return of the ids.
StoreUnlock(g) ==
    /\ gpc[g] = "store"
    /\ cacheMu' = [cacheMu EXCEPT !.writer = FALSE]
    /\ gHolds' = [gHolds EXCEPT ![g] = "none"]
    /\ gpc' = [gpc EXCEPT ![g] = "returned"]
    /\ UNCHANGED <<gKind, gResult, cacheData, throttleData>>

--------------------------------------------------------------------------
(* The terminal UI: Model.Update over key presses, window sizes and the    *)
(* result messages of the load commands. A command runs in a goroutine of  *)
(* its own; its message is delivered whenever it is ready, in any order.   *)
(*                                                                         *)
(* A slice of story identifiers, or of the stories fetched for them, is a  *)
(* sequence of runs: Run(gen, lo, hi) stands for positions lo..hi of the   *)
(* listing that the gen-th listing fetch of the session returned.          *)

\* len(api.FeedNames)
FeedCount == 5

\* min(30, len(msg.ids)) and min(len(m.stories)+30, len(m.storyIDs))
BatchSize == 30

\* m.cursor >= len(m.stories)-5
NearEnd == 5

\* m.cursor+10 and m.cursor-10
PageStep == 10

Min(a, b) == IF a < b THEN a ELSE b
Max(a, b) == IF a > b THEN a ELSE b

\* Go's integer division, which truncates toward zero.
GoDiv(a, b) == IF a >= 0 THEN a \div b ELSE 0 - ((0 - a) \div b)

Run(gen, lo, hi) == [gen |-> gen, lo |-> lo, hi |-> hi]

\* len(s) of a slice given as runs.
RECURSIVE SliceLen(_)
SliceLen(runs) ==
    IF runs = <<>> THEN 0
    ELSE (runs[1].hi - runs[1].lo + 1) + SliceLen(Tail(runs))

\* s[i] (i from 0, as in the source) of a slice given as runs: the story
\* [gen, pos].
RECURSIVE SliceAt(_, _)
SliceAt(runs, i) ==
    LET n == runs[1].hi - runs[1].lo + 1
    IN  IF i < n THEN [gen |-> runs[1].gen, pos |-> runs[1].lo + i]
        ELSE SliceAt(Tail(runs), i - n)

\* append(s, more...)
SliceAppend(runs, run) == IF run.hi < run.lo THEN runs ELSE Append(runs, run)

\* story.Descendants > 0: the first story of a listing has comments, the
\* others have none.
HasDescendants(story) == story.pos = 1

\* The lengths of the listings the upstream serves: less than one batch, and
\* more than one.
ListingSizes == {MaxShort, BatchSize + MaxShort}

\* The terminal heights of the WindowSizeMsg.
Heights == {9}

\* visibleStoryCount()
visibleStoryCount(height) ==
    LET count == GoDiv(height - 3, 2)
    IN  IF count < 1 THEN 1 ELSE count

\* adjustOffset(): the new m.offset
adjustOffset(cursor, offset, height) ==
    LET visibleCount == visibleStoryCount(height)
        moved == IF cursor < offset THEN cursor
                 ELSE IF cursor >= offset + visibleCount THEN cursor - visibleCount + 1
                 ELSE offset
    IN  IF moved < 0 THEN 0 ELSE moved

\* A feed switch that stops at the last feed.
NextFeedStops(feed) == Min(feed + 1, FeedCount - 1)

\* (m.feed + 1) % len(api.FeedNames)
NextFeed(feed) == (feed + 1) % FeedCount

\* (m.feed - 1 + len(api.FeedNames)) % len(api.FeedNames)
PrevFeed(feed) == (feed - 1 + FeedCount) % FeedCount

\* View(): what the main content shows.
View ==
    IF mHeight = 0 THEN "starting"
    ELSE IF mLoading THEN "loading"
    ELSE IF mErr # "" THEN "error"
    ELSE IF mShowHelp THEN "help"
    ELSE mView

uiFields == <<mView, mFeed, mStoryIDs, mStories, mComments, mCursor, mOffset, mLoading,
              mErr, mShowHelp, mHeight, mCurrentItem, mRun>>

\* New() and no Init() yet: the variables of a session that has not started.
IdleUI ==
    /\ mView = "stories" /\ mFeed = 0 /\ mStoryIDs = <<>> /\ mStories = <<>>
    /\ mComments = "nil" /\ mCursor = 0 /\ mOffset = 0 /\ mLoading = TRUE
    /\ mErr = "" /\ mShowHelp = FALSE /\ mHeight = 0 /\ mCurrentItem = <<>>
    /\ mRun = "idle"
    /\ inbox = {}
    /\ issued = [listings |-> 0, batches |-> 0, threads |-> 0]
    /\ uKeys = 0 /\ uRetried = FALSE

\* loadStoryIDs(): the command that fetches the listing of feed, the gen-th
\* listing fetch of the session.
loadStoryIDs(feed) == [kind |-> "ids", gen |-> issued.listings + 1, feed |-> feed]

\* loadStories(ids): the command that fetches the stories of the run ids,
\* the no-th story fetch of the session.
loadStories(run) == [kind |-> "stories", no |-> issued.batches + 1, run |-> run]

\* loadComments(item): the no-th thread fetch of the session.
loadComments(story) == [kind |-> "comments", no |-> issued.threads + 1, story |-> story]

\* New() and Init(): the session starts on feed 0 with the first listing
\* fetch under way.
InitUI ==
    /\ mView = "stories" /\ mFeed = 0 /\ mStoryIDs = <<>> /\ mStories = <<>>
    /\ mComments = "nil" /\ mCursor = 0 /\ mOffset = 0 /\ mLoading = TRUE
    /\ mErr = "" /\ mShowHelp = FALSE /\ mHeight = 0 /\ mCurrentItem = <<>>
    /\ mRun = "running"
    /\ inbox = {[kind |-> "ids", gen |-> 1, feed |-> 0]}
    /\ issued = [listings |-> 1, batches |-> 0, threads |-> 0]
    /\ uKeys = 0 /\ uRetried = FALSE

\* One more key is pressed.
Pressed == mRun = "running" /\ uKeys < MaxKeys /\ uKeys' = uKeys + 1

\* A key other than Help reaches the switch of Update.
KeyHandled == Pressed /\ ~mShowHelp

\* tea.Batch(m.spinner.Tick, m.loadStoryIDs()) after m.stories = nil,
\* m.storyIDs = nil, m.cursor = 0, m.loading = true.
Reload(feed) ==
    /\ issued.listings < MaxListings
    /\ mFeed' = feed
    /\ mStories' = <<>>
    /\ mStoryIDs' = <<>>
    /\ mCursor' = 0
    /\ mLoading' = TRUE
    /\ inbox' = inbox \cup {loadStoryIDs(feed)}
    /\ issued' = [issued EXCEPT !.listings = @ + 1]
    /\ UNCHANGED <<mView, mComments, mOffset, mErr, mShowHelp, mHeight, mCurrentItem, mRun>>

\* case key.Matches(msg, m.keys.Help)
KeyHelp ==
    /\ Pressed /\ UNCHANGED uRetried
    /\ mShowHelp' = ~mShowHelp
    /\ UNCHANGED <<mView, mFeed, mStoryIDs, mStories, mComments, mCursor, mOffset, mLoading,
                   mErr, mHeight, mCurrentItem, mRun, inbox, issued>>

\* if m.showHelp { m.showHelp = false; return m, nil }: any other key.
KeyClosesHelp ==
    /\ Pressed /\ mShowHelp /\ UNCHANGED uRetried
    /\ mShowHelp' = FALSE
    /\ UNCHANGED <<mView, mFeed, mStoryIDs, mStories, mComments, mCursor, mOffset, mLoading,
                   mErr, mHeight, mCurrentItem, mRun, inbox, issued>>

\* case Quit: return m, tea.Quit
KeyQuit ==
    /\ KeyHandled /\ UNCHANGED uRetried
    /\ mRun' = "quit"
    /\ UNCHANGED <<mView, mFeed, mStoryIDs, mStories, mComments, mCursor, mOffset, mLoading,
                   mErr, mShowHelp, mHeight, mCurrentItem, inbox, issued>>

\* The navigation keys of the stories view move the cursor to target and
\* call adjustOffset; in the comments view they scroll the viewport, which
\* holds no field of the listing.
MoveCursor(target) ==
    /\ mCursor' = target
    /\ mOffset' = adjustOffset(target, mOffset, mHeight)

\* case Up
KeyUp ==
    /\ KeyHandled /\ UNCHANGED uRetried
    /\ IF mView = "stories" /\ mCursor > 0
       THEN MoveCursor(mCursor - 1)
       ELSE UNCHANGED <<mCursor, mOffset>>
    /\ UNCHANGED <<mView, mFeed, mStoryIDs, mStories, mComments, mLoading, mErr, mShowHelp,
                   mHeight, mCurrentItem, mRun, inbox, issued>>

\* case Down: the cursor moves, and near the end of the loaded stories the
\* next batch of the listing is requested.
KeyDown ==
    /\ KeyHandled /\ UNCHANGED uRetried
    /\ IF mView = "stories" /\ mCursor < SliceLen(mStories) - 1
       THEN /\ MoveCursor(mCursor + 1)
            /\ IF /\ mCursor + 1 >= SliceLen(mStories) - NearEnd
                  /\ SliceLen(mStoryIDs) > SliceLen(mStories)
               THEN LET nextBatch ==
                            Run(mStoryIDs[1].gen, SliceLen(mStories) + 1,
                                Min(SliceLen(mStories) + BatchSize, SliceLen(mStoryIDs)))
                    IN  /\ issued.batches < MaxBatches
                        /\ mLoading' = TRUE
                        /\ inbox' = inbox \cup {loadStories(nextBatch)}
                        /\ issued' = [issued EXCEPT !.batches = @ + 1]
               ELSE UNCHANGED <<mLoading, inbox, issued>>
       ELSE UNCHANGED <<mCursor, mOffset, mLoading, inbox, issued>>
    /\ UNCHANGED <<mView, mFeed, mStoryIDs, mStories, mComments, mErr, mShowHelp,
                   mHeight, mCurrentItem, mRun>>

\* case PageDown
KeyPageDown ==
    /\ KeyHandled /\ UNCHANGED uRetried
    /\ IF mView = "stories"
       THEN MoveCursor(Min(mCursor + PageStep, SliceLen(mStories) - 1))
       ELSE UNCHANGED <<mCursor, mOffset>>
    /\ UNCHANGED <<mView, mFeed, mStoryIDs, mStories, mComments, mLoading, mErr, mShowHelp,
                   mHeight, mCurrentItem, mRun, inbox, issued>>

\* case PageUp
KeyPageUp ==
    /\ KeyHandled /\ UNCHANGED uRetried
    /\ IF mView = "stories"
       THEN MoveCursor(Max(mCursor - PageStep, 0))
       ELSE UNCHANGED <<mCursor, mOffset>>
    /\ UNCHANGED <<mView, mFeed, mStoryIDs, mStories, mComments, mLoading, mErr, mShowHelp,
                   mHeight, mCurrentItem, mRun, inbox, issued>>

\* case Home: m.cursor = 0; m.offset = 0
KeyHome ==
    /\ KeyHandled /\ UNCHANGED uRetried
    /\ IF mView = "stories"
       THEN mCursor' = 0 /\ mOffset' = 0
       ELSE UNCHANGED <<mCursor, mOffset>>
    /\ UNCHANGED <<mView, mFeed, mStoryIDs, mStories, mComments, mLoading, mErr, mShowHelp,
                   mHeight, mCurrentItem, mRun, inbox, issued>>

\* case End: m.cursor = len(m.stories) - 1
KeyEnd ==
    /\ KeyHandled /\ UNCHANGED uRetried
    /\ IF mView = "stories"
       THEN MoveCursor(SliceLen(mStories) - 1)
       ELSE UNCHANGED <<mCursor, mOffset>>
    /\ UNCHANGED <<mView, mFeed, mStoryIDs, mStories, mComments, mLoading, mErr, mShowHelp,
                   mHeight, mCurrentItem, mRun, inbox, issued>>

\* m.stories[m.cursor] is inside the slice; outside it the runtime panics.
InRange == 0 <= mCursor /\ mCursor < SliceLen(mStories)

\* case Enter, Open: story := m.stories[m.cursor]; the browser opens.
KeyEnter ==
    /\ KeyHandled /\ UNCHANGED uRetried
    /\ mRun' = IF mView = "stories" /\ SliceLen(mStories) > 0 /\ ~InRange
               THEN "panic" ELSE mRun
    /\ UNCHANGED <<mView, mFeed, mStoryIDs, mStories, mComments, mCursor, mOffset, mLoading,
                   mErr, mShowHelp, mHeight, mCurrentItem, inbox, issued>>

\* case Comments: story := m.stories[m.cursor]; with comments to show the
\* comments view opens and the thread is requested.
KeyComments ==
    /\ KeyHandled /\ UNCHANGED uRetried
    /\ IF mView = "stories" /\ SliceLen(mStories) > 0
       THEN IF ~InRange
            THEN /\ mRun' = "panic"
                 /\ UNCHANGED <<mView, mComments, mLoading, mCurrentItem, inbox, issued>>
            ELSE LET story == SliceAt(mStories, mCursor)
                 IN  IF HasDescendants(story)
                     THEN /\ issued.threads < MaxThreads
                          /\ mCurrentItem' = <<story>>
                          /\ mView' = "comments"
                          /\ mLoading' = TRUE
                          /\ mComments' = "nil"
                          /\ inbox' = inbox \cup {loadComments(story)}
                          /\ issued' = [issued EXCEPT !.threads = @ + 1]
                          /\ UNCHANGED mRun
                     ELSE UNCHANGED <<mView, mComments, mLoading, mCurrentItem, mRun, inbox,
                                      issued>>
       ELSE UNCHANGED <<mView, mComments, mLoading, mCurrentItem, mRun, inbox, issued>>
    /\ UNCHANGED <<mFeed, mStoryIDs, mStories, mCursor, mOffset, mErr, mShowHelp, mHeight>>

\* case Back
KeyBack ==
    /\ KeyHandled /\ UNCHANGED uRetried
    /\ IF mView = "comments"
       THEN mView' = "stories" /\ mComments' = "nil"
       ELSE UNCHANGED <<mView, mComments>>
    /\ UNCHANGED <<mFeed, mStoryIDs, mStories, mCursor, mOffset, mLoading, mErr, mShowHelp,
                   mHeight, mCurrentItem, mRun, inbox, issued>>

\* case NextTab
KeyNextTab ==
    /\ KeyHandled
    /\ IF mView = "stories"
       THEN Reload(NextFeed(mFeed)) /\ uRetried' = FALSE
       ELSE UNCHANGED <<uiFields, inbox, issued, uRetried>>

\* case PrevTab
KeyPrevTab ==
    /\ KeyHandled
    /\ IF mView = "stories"
       THEN Reload(PrevFeed(mFeed)) /\ uRetried' = FALSE
       ELSE UNCHANGED <<uiFields, inbox, issued, uRetried>>

\* case Refresh: in either view.
KeyRefresh ==
    /\ KeyHandled
    /\ Reload(mFeed)
    /\ uRetried' = (View = "error")

\* case tea.WindowSizeMsg: the size of the terminal, sent once at start-up.
WindowSize ==
    /\ mRun = "running"
    /\ mHeight = 0
    /\ \E h \in Heights : mHeight' = h
    /\ UNCHANGED <<mView, mFeed, mStoryIDs, mStories, mComments, mCursor, mOffset, mLoading,
                   mErr, mShowHelp, mCurrentItem, mRun, inbox, issued, uKeys, uRetried>>

\* case storyIDsLoadedMsg: FetchStoryIDs failed, or returned a listing of
\* which the first batch is requested.
StoryIDsLoaded ==
    /\ mRun = "running"
    /\ \E msg \in inbox : \E ok \in BOOLEAN : \E n \in ListingSizes :
          /\ msg.kind = "ids"
          /\ uRetried' = (uRetried /\ ok)
          /\ n > BatchSize => msg.gen <= MaxLong
          /\ IF ~ok
             THEN /\ mErr' = "fetch failed"
                  /\ mLoading' = FALSE
                  /\ inbox' = inbox \ {msg}
                  /\ UNCHANGED <<mStoryIDs, issued>>
             ELSE LET first == Run(msg.gen, 1, Min(BatchSize, n))
                  IN  /\ mStoryIDs' = SliceAppend(<<>>, Run(msg.gen, 1, n))
                      /\ mLoading' = mLoading
                      /\ inbox' = (inbox \ {msg}) \cup {loadStories(first)}
                      /\ issued' = [issued EXCEPT !.batches = @ + 1]
                      /\ UNCHANGED mErr
    /\ UNCHANGED <<mView, mFeed, mStories, mComments, mCursor, mOffset, mShowHelp, mHeight,
                   mCurrentItem, mRun, uKeys>>

\* case storiesLoadedMsg: the stories are appended to m.stories.
StoriesLoaded ==
    /\ mRun = "running"
    /\ \E msg \in inbox : \E ok \in BOOLEAN :
          /\ msg.kind = "stories"
          /\ uRetried' = (uRetried /\ ok)
          /\ inbox' = inbox \ {msg}
          /\ mLoading' = FALSE
          /\ IF ~ok
             THEN mErr' = "fetch failed" /\ UNCHANGED mStories
             ELSE mStories' = SliceAppend(mStories, msg.run) /\ UNCHANGED mErr
    /\ UNCHANGED <<mView, mFeed, mStoryIDs, mComments, mCursor, mOffset, mShowHelp, mHeight,
                   mCurrentItem, mRun, issued, uKeys>>

\* case commentsLoadedMsg
CommentsLoaded ==
    /\ mRun = "running"
    /\ \E msg \in inbox : \E ok \in BOOLEAN :
          /\ msg.kind = "comments"
          /\ uRetried' = (uRetried /\ ok)
          /\ inbox' = inbox \ {msg}
          /\ mLoading' = FALSE
          /\ IF ~ok
             THEN mErr' = "fetch failed" /\ UNCHANGED mComments
             ELSE mComments' = "loaded" /\ UNCHANGED mErr
    /\ UNCHANGED <<mView, mFeed, mStoryIDs, mStories, mCursor, mOffset, mShowHelp, mHeight,
                   mCurrentItem, mRun, issued, uKeys>>

\* The components added after the throttle: no goroutine holds c.cacheMu,
\* no UI session runs.
IdleMore == IdleLocks /\ IdleUI

IdleUtil == IdleMain /\ IdleStoryURL /\ IdleFeeds /\ IdleTimeAgo /\ IdleVersion /\ IdleUpdate
    /\ IdleMore

--------------------------------------------------------------------------
(* Specifications *)

\* No caching adapter in use.
IdleCache ==
    /\ InitCache
    /\ adapter = "lobsters"

NextCache ==
    \/ FetchStoryIDsFails /\ UNCHANGED <<hnVars, treeVars, throttleVars, listVars, threadVars, utilVars>>
    \/ FetchStoryIDsFetched /\ UNCHANGED <<hnVars, treeVars, throttleVars, listVars, threadVars, utilVars>>
    \/ CacheLock /\ UNCHANGED <<hnVars, treeVars, throttleVars, listVars, threadVars, utilVars>>
    \/ CacheClear /\ UNCHANGED <<hnVars, treeVars, throttleVars, listVars, threadVars, utilVars>>
    \/ CacheInsert /\ UNCHANGED <<hnVars, treeVars, throttleVars, listVars, threadVars, utilVars>>
    \/ FetchItemCall /\ UNCHANGED <<hnVars, treeVars, throttleVars, listVars, threadVars, utilVars>>
    \/ FetchItemsCall /\ UNCHANGED <<hnVars, treeVars, throttleVars, listVars, threadVars, utilVars>>
    \/ CacheRLock /\ UNCHANGED <<hnVars, treeVars, throttleVars, listVars, threadVars, utilVars>>
    \/ CacheLookup /\ UNCHANGED <<hnVars, treeVars, throttleVars, listVars, threadVars, utilVars>>
    \/ CacheRUnlock /\ UNCHANGED <<hnVars, treeVars, throttleVars, listVars, threadVars, utilVars>>
    \/ LookupDone /\ UNCHANGED <<hnVars, treeVars, throttleVars, listVars, threadVars, utilVars>>

\* One caching adapter instance, a goroutine refreshing it and one reading it.
StartCache == InitCache /\ IdleFetchItems /\ IdleTree /\ IdleThrottle /\ IdleListing
    /\ IdleThread
    /\ IdleUtil

SpecCache == StartCache /\ [][NextCache]_vars

NextFetchItems ==
    \/ \E i \in DOMAIN wk : Acquire(i) /\ UNCHANGED <<cacheVars, treeVars, throttleVars, listVars, threadVars, utilVars>>
    \/ \E i \in DOMAIN wk : Finish(i) /\ UNCHANGED <<cacheVars, treeVars, throttleVars, listVars, threadVars, utilVars>>
    \/ ReturnItems /\ UNCHANGED <<cacheVars, treeVars, throttleVars, listVars, threadVars, utilVars>>

\* One Hacker News FetchItems call of a few identifiers.
StartHN == IdleCache /\ InitFetchItems /\ IdleTree /\ IdleThrottle /\ IdleListing
    /\ IdleThread
    /\ IdleUtil

SpecFetchItems == StartHN /\ [][NextFetchItems]_vars

\* One Hacker News FetchItems call of more identifiers than the pool has slots.
StartHNPool == IdleCache /\ InitFetchItemsPool /\ IdleTree /\ IdleThrottle /\ IdleListing
    /\ IdleThread
    /\ IdleUtil

SpecFetchItemsPool == StartHNPool /\ [][NextFetchItems]_vars

NextTree ==
    \/ FetchCommentTree /\ UNCHANGED <<cacheVars, hnVars, throttleVars, listVars, threadVars, utilVars>>

\* One Hacker News FetchCommentTree call.
StartTree == IdleCache /\ IdleFetchItems /\ InitTree /\ IdleThrottle /\ IdleListing
    /\ IdleThread
    /\ IdleUtil

SpecTree == StartTree /\ [][NextTree]_vars

NextThrottle ==
    \/ \E g \in Goroutines : CallListing(g) /\ UNCHANGED <<cacheVars, hnVars, treeVars, listVars, threadVars, utilVars>>
    \/ \E g \in Goroutines : CallComments(g) /\ UNCHANGED <<cacheVars, hnVars, treeVars, listVars, threadVars, utilVars>>
    \/ \E g \in Goroutines : ThrottleLock(g) /\ UNCHANGED <<cacheVars, hnVars, treeVars, listVars, threadVars, utilVars>>
    \/ \E g \in Goroutines : ThrottleReturn(g) /\ UNCHANGED <<cacheVars, hnVars, treeVars, listVars, threadVars, utilVars>>
    \/ \E g \in Goroutines : Do(g) /\ UNCHANGED <<cacheVars, hnVars, treeVars, listVars, threadVars, utilVars>>
    \/ \E g \in Goroutines : Respond(g) /\ UNCHANGED <<cacheVars, hnVars, treeVars, listVars, threadVars, utilVars>>
    \/ \E g \in Goroutines : BackoffDone(g) /\ UNCHANGED <<cacheVars, hnVars, treeVars, listVars, threadVars, utilVars>>
    \/ Tick /\ UNCHANGED <<cacheVars, hnVars, treeVars, listVars, threadVars, utilVars>>

\* Two goroutines calling one throttled adapter instance.
StartThrottle ==
    InitCache /\ adapter \in Throttled /\ IdleFetchItems /\ IdleTree /\ IdleThrottle /\ IdleListing
    /\ IdleThread
    /\ IdleUtil

SpecThrottle == StartThrottle /\ [][NextThrottle]_vars

NextListing ==
    \/ ListingCall /\ UNCHANGED <<cacheVars, hnVars, treeVars, throttleVars, threadVars, utilVars>>
    \/ ListingPage2 /\ UNCHANGED <<cacheVars, hnVars, treeVars, throttleVars, threadVars, utilVars>>
    \/ ListingRefetch /\ UNCHANGED <<cacheVars, hnVars, treeVars, throttleVars, threadVars, utilVars>>
    \/ ListedFetchItem /\ UNCHANGED <<cacheVars, hnVars, treeVars, throttleVars, threadVars, utilVars>>

StartListing == IdleCache /\ IdleFetchItems /\ IdleTree /\ IdleThrottle /\ InitListing
    /\ IdleThread
    /\ IdleUtil

\* One FetchStoryIDs call on any adapter, then one FetchItem.
SpecListing == StartListing /\ [][NextListing]_vars

NextThread ==
    \/ FetchThread /\ UNCHANGED <<cacheVars, hnVars, throttleVars, listVars, utilVars>>

StartThread ==
    IdleCache /\ IdleFetchItems /\ IdleThrottle /\ IdleListing /\ InitThread
    /\ IdleUtil

\* One FetchCommentTree call on Reddit, Dev.to, Lobsters or Tildes.
SpecThread == StartThread /\ [][NextThread]_vars

NextCommentTrees ==
    \/ FetchCommentTree /\ UNCHANGED <<cacheVars, hnVars, throttleVars, listVars, threadVars, utilVars>>
    \/ FetchThread /\ UNCHANGED <<cacheVars, hnVars, throttleVars, listVars, utilVars>>

\* One FetchCommentTree call on any client that returns comment trees.
StartCommentTrees == IdleCache /\ IdleFetchItems /\ IdleThrottle /\ IdleListing
    /\ ((InitTree /\ IdleThread) \/ InitThread)
    /\ IdleUtil

SpecCommentTrees == StartCommentTrees /\ [][NextCommentTrees]_vars

NextMain ==
    \/ Main /\ UNCHANGED <<coreVars, urlVars, feedVars, agoVars, versionVars, updateVars, moreVars>>

IdleCore == IdleCache /\ IdleFetchItems /\ IdleTree /\ IdleThrottle /\ IdleListing
    /\ IdleThread

\* One run of main with any -source flag.
StartMain == IdleCore /\ InitMain /\ IdleStoryURL /\ IdleFeeds /\ IdleTimeAgo /\ IdleVersion
    /\ IdleUpdate
    /\ IdleMore

SpecMain == StartMain /\ [][NextMain]_vars

NextStoryURL ==
    \/ StoryURL /\ UNCHANGED <<coreVars, mainVars, feedVars, agoVars, versionVars, updateVars, moreVars>>

\* One StoryURL call on any item.
StartStoryURL == IdleCore /\ IdleMain /\ InitStoryURL /\ IdleFeeds /\ IdleTimeAgo /\ IdleVersion
    /\ IdleUpdate
    /\ IdleMore

SpecStoryURL == StartStoryURL /\ [][NextStoryURL]_vars

NextFeeds ==
    \/ UseFeed /\ UNCHANGED <<coreVars, mainVars, urlVars, agoVars, versionVars, updateVars, moreVars>>

\* One feed of one adapter is selected.
StartFeeds == IdleCore /\ IdleMain /\ IdleStoryURL /\ InitFeeds /\ IdleTimeAgo /\ IdleVersion
    /\ IdleUpdate
    /\ IdleMore

SpecFeeds == StartFeeds /\ [][NextFeeds]_vars

NextTimeAgo ==
    \/ CallTimeAgo /\ UNCHANGED <<coreVars, mainVars, urlVars, feedVars, versionVars, updateVars, moreVars>>

\* One TimeAgo call on an item of any age.
StartTimeAgo == IdleCore /\ IdleMain /\ IdleStoryURL /\ IdleFeeds /\ InitTimeAgo /\ IdleVersion
    /\ IdleUpdate
    /\ IdleMore

SpecTimeAgo == StartTimeAgo /\ [][NextTimeAgo]_vars

NextVersion ==
    \/ CallHasUpdate /\ UNCHANGED <<coreVars, mainVars, urlVars, feedVars, agoVars, updateVars, moreVars>>

\* One HasUpdate call on any UpdateInfo.
StartVersion == IdleCore /\ IdleMain /\ IdleStoryURL /\ IdleFeeds /\ IdleTimeAgo /\ InitVersion
    /\ IdleUpdate
    /\ IdleMore

SpecVersion == StartVersion /\ [][NextVersion]_vars

NextUpdate ==
    \/ CheckDevVersion /\ UNCHANGED <<coreVars, mainVars, urlVars, feedVars, agoVars, versionVars, moreVars>>
    \/ CheckWithoutCacheDir /\ UNCHANGED <<coreVars, mainVars, urlVars, feedVars, agoVars, versionVars, moreVars>>
    \/ CheckFromCache /\ UNCHANGED <<coreVars, mainVars, urlVars, feedVars, agoVars, versionVars, moreVars>>
    \/ CheckRelease /\ UNCHANGED <<coreVars, mainVars, urlVars, feedVars, agoVars, versionVars, moreVars>>
    \/ ClockAdvance /\ UNCHANGED <<coreVars, mainVars, urlVars, feedVars, agoVars, versionVars, moreVars>>

\* A sequence of CheckForUpdate calls, one after the other, as time passes.
StartUpdate == IdleCore /\ IdleMain /\ IdleStoryURL /\ IdleFeeds /\ IdleTimeAgo /\ IdleVersion
    /\ InitUpdate
    /\ IdleMore

SpecUpdate == StartUpdate /\ [][NextUpdate]_vars

NextLocks ==
    \/ \E g \in Goroutines : CallListing(g) /\ UNCHANGED <<cacheVars, hnVars, treeVars, listVars, threadVars, utilVars>>
    \/ \E g \in Goroutines : CallComments(g) /\ UNCHANGED <<cacheVars, hnVars, treeVars, listVars, threadVars, utilVars>>
    \/ \E g \in Goroutines : ThrottleLock(g) /\ UNCHANGED <<cacheVars, hnVars, treeVars, listVars, threadVars, utilVars>>
    \/ \E g \in Goroutines : ThrottleReturn(g) /\ UNCHANGED <<cacheVars, hnVars, treeVars, listVars, threadVars, utilVars>>
    \/ \E g \in Goroutines : Do(g) /\ UNCHANGED <<cacheVars, hnVars, treeVars, listVars, threadVars, utilVars>>
    \/ \E g \in Goroutines : Respond(g) /\ UNCHANGED <<cacheVars, hnVars, treeVars, listVars, threadVars, utilVars>>
    \/ \E g \in Goroutines : BackoffDone(g) /\ UNCHANGED <<cacheVars, hnVars, treeVars, listVars, threadVars, utilVars>>
    \/ Tick /\ UNCHANGED <<cacheVars, hnVars, treeVars, listVars, threadVars, utilVars>>
    \/ \E g \in Goroutines : LookupCall(g) /\ UNCHANGED <<hnVars, treeVars, listVars, threadVars, toolVars, uiVars>>
    \/ \E g \in Goroutines : LookupRLock(g) /\ UNCHANGED <<hnVars, treeVars, listVars, threadVars, toolVars, uiVars>>
    \/ \E g \in Goroutines : LookupRUnlock(g) /\ UNCHANGED <<hnVars, treeVars, listVars, threadVars, toolVars, uiVars>>
    \/ \E g \in Goroutines : StoreEmpty(g) /\ UNCHANGED <<hnVars, treeVars, listVars, threadVars, toolVars, uiVars>>
    \/ \E g \in Goroutines : StoreLock(g) /\ UNCHANGED <<hnVars, treeVars, listVars, threadVars, toolVars, uiVars>>
    \/ \E g \in Goroutines : StoreUnlock(g) /\ UNCHANGED <<hnVars, treeVars, listVars, threadVars, toolVars, uiVars>>

\* Goroutines calling FetchStoryIDs, FetchItem / FetchItems and
\* FetchCommentTree on one throttled adapter instance.
StartLocks ==
    InitCache /\ adapter \in Throttled /\ IdleFetchItems /\ IdleTree /\ IdleThrottle /\ IdleListing
    /\ IdleThread
    /\ IdleUtil

SpecLocks == StartLocks /\ [][NextLocks]_vars

NextUI ==
    \/ KeyHelp /\ UNCHANGED <<coreVars, toolVars, lockVars>>
    \/ KeyClosesHelp /\ UNCHANGED <<coreVars, toolVars, lockVars>>
    \/ KeyQuit /\ UNCHANGED <<coreVars, toolVars, lockVars>>
    \/ KeyUp /\ UNCHANGED <<coreVars, toolVars, lockVars>>
    \/ KeyDown /\ UNCHANGED <<coreVars, toolVars, lockVars>>
    \/ KeyPageDown /\ UNCHANGED <<coreVars, toolVars, lockVars>>
    \/ KeyPageUp /\ UNCHANGED <<coreVars, toolVars, lockVars>>
    \/ KeyHome /\ UNCHANGED <<coreVars, toolVars, lockVars>>
    \/ KeyEnd /\ UNCHANGED <<coreVars, toolVars, lockVars>>
    \/ KeyEnter /\ UNCHANGED <<coreVars, toolVars, lockVars>>
    \/ KeyComments /\ UNCHANGED <<coreVars, toolVars, lockVars>>
    \/ KeyBack /\ UNCHANGED <<coreVars, toolVars, lockVars>>
    \/ KeyNextTab /\ UNCHANGED <<coreVars, toolVars, lockVars>>
    \/ KeyPrevTab /\ UNCHANGED <<coreVars, toolVars, lockVars>>
    \/ KeyRefresh /\ UNCHANGED <<coreVars, toolVars, lockVars>>
    \/ WindowSize /\ UNCHANGED <<coreVars, toolVars, lockVars>>
    \/ StoryIDsLoaded /\ UNCHANGED <<coreVars, toolVars, lockVars>>
    \/ StoriesLoaded /\ UNCHANGED <<coreVars, toolVars, lockVars>>
    \/ CommentsLoaded /\ UNCHANGED <<coreVars, toolVars, lockVars>>

IdleTools == IdleMain /\ IdleStoryURL /\ IdleFeeds /\ IdleTimeAgo /\ IdleVersion /\ IdleUpdate

\* One session of the UI on the Hacker News client.
StartUI == IdleCore /\ IdleTools /\ IdleLocks /\ InitUI

SpecUI == StartUI /\ [][NextUI]_vars

--------------------------------------------------------------------------
(* Claims about the caches *)

\* FetchItem(id) has returned, and no cache replacement was under way when it
\* looked id up.
FetchItemReturned == rpc = "done" /\ rOp = "FetchItem" /\ rQuiet

\* C1: after a later successful FetchStoryIDs replaced the cache, FetchItem of
\* any identifier the earlier FetchStoryIDs returned fails with not-found.
C1_OldIdsAreNotFound ==
    (FetchItemReturned /\ rIds[1] \in Range(rPrevIds)) => rErr = "not found"

C7_ReaderSeesOneSnapshot ==
    rpc = "done" =>
        \E snap \in rSeen : \A i \in 1..Len(rIds) : rItems[i] = Lookup(snap, rIds[i])

\* The same on the adapters that guard the cache with cacheMu.
LockedReaderSeesOneSnapshot == HasCacheMu(adapter) => C7_ReaderSeesOneSnapshot

--------------------------------------------------------------------------
(* Claims about Hacker News FetchItems *)

\* What slot i must hold once the fetch of ids[i] is over.
Fetched(i) == IF ids[i] \in failing THEN NilItem ELSE HNItem(ids[i])

\* C3: whatever the completion order, a slot never holds anything but the
\* item of its own identifier, and on return slot i holds the item fetched for
\* ids[i], or nothing when that fetch failed.
C3_SlotsFollowInputOrder ==
    /\ \A i \in DOMAIN items : items[i] \in {NilItem, HNItem(ids[i])}
    /\ \A i \in DOMAIN items : wk[i] = "done" => items[i] = Fetched(i)
    /\ hpc = "returned" => (Len(items) = Len(ids) /\ \A i \in DOMAIN ids : items[i] = Fetched(i))

\* C3's case: the call has returned after the worker of a later index stored
\* its item first: slot 2 differs from slot 1 and both fetches succeeded.
C3_Witness ==
    /\ hpc = "returned"
    /\ Len(ids) >= 2
    /\ ids[1] # ids[2]
    /\ items[1] = HNItem(ids[1])
    /\ items[2] = HNItem(ids[2])

\* A later worker has stored its item while the first is still in flight.
C3_OutOfOrder ==
    /\ Len(ids) >= 2
    /\ wk[1] = "fetching"
    /\ wk[2] = "done"
    /\ items[2] = HNItem(ids[2])
    /\ ids[1] # ids[2]

\* C4: at most 10 FetchItem requests are in flight at any moment, however
\* long the input.
C4_AtMostPoolSizeInFlight == Cardinality(InFlight(wk)) <= PoolSize

\* C4's case: the pool is full and a worker of the same call waits for a slot.
C4_Witness ==
    /\ Len(ids) > PoolSize
    /\ Cardinality(InFlight(wk)) = PoolSize
    /\ \E i \in DOMAIN wk : wk[i] = "queued"

\* C5: FetchItems returns an error exactly when an individual fetch failed,
\* that error is the first one the workers recorded, and every item whose
\* fetch succeeded is at its slot.
C5_FirstErrorAndPartialResults ==
    /\ firstErr = (IF errOrder = <<>> THEN NoErr ELSE errOrder[1])
    /\ hpc = "returned" =>
          /\ (firstErr # NoErr) <=> (\E i \in DOMAIN ids : ids[i] \in failing)
          /\ \A i \in DOMAIN ids : ids[i] \notin failing => items[i] = HNItem(ids[i])

\* C5's case: two different fetches failed, another succeeded, and the call
\* has returned.
C5_Witness ==
    /\ hpc = "returned"
    /\ Len(errOrder) >= 2
    /\ errOrder[1] # errOrder[2]
    /\ firstErr = errOrder[1]
    /\ \E i \in DOMAIN items : items[i] # NilItem

--------------------------------------------------------------------------
(* Claims about Hacker News FetchCommentTree *)

\* The tree the claim describes: a comment whose children fail to fetch is
\* returned without children.
RECURSIVE ClaimedComments(_, _)
ClaimedComments(idlist, depth) ==
    IF idlist = <<>> \/ (maxDepth > 0 /\ depth >= maxDepth) THEN <<>>
    ELSE LET id == Head(idlist)
             rest == ClaimedComments(Tail(idlist), depth)
         IN  IF id \in suppressed THEN rest
             ELSE IF \E i \in 1..Len(kidsOf[id]) : kidsOf[id][i] \in down
                  THEN <<Comment(id, depth, <<>>)>> \o rest
                  ELSE <<Comment(id, depth, ClaimedComments(kidsOf[id], depth + 1))>> \o rest

\* The fetch of the story's own Kids succeeds.
RootsFetched == \A i \in 1..Len(kidsOf[0]) : kidsOf[0][i] \notin down

\* C6: when the fetch of a surviving comment's children fails, the comment is
\* returned with no children, the rest of the tree is returned unchanged and
\* the call does not fail.
C6_FailedChildrenLeaveCommentChildless ==
    (tpc = "returned" /\ RootsFetched) =>
        tree = TreeOk(ClaimedComments(kidsOf[0], 0))

--------------------------------------------------------------------------
(* Claims about the throttled adapters *)

\* The requests sent and the throttle returns so far, as (goroutine, index).
Requests == {e \in Goroutines \X (1..2) : e[2] <= Len(gReqs[e[1]])}
Passes == {e \in Goroutines \X (1..2) : e[2] <= Len(gPasses[e[1]])}

Apart(t, u) == IF t >= u THEN t - u ELSE u - t

\* C8: no two outbound requests of one adapter instance start less than the
\* adapter's minimum delay apart.
C8_RequestsStartMinDelayApart ==
    \A e, f \in Requests :
        e # f => Apart(gReqs[e[1]][e[2]].at, gReqs[f[1]][f[2]].at) >= MinDelay(adapter)

\* Every request is sent by a goroutine after a throttle() return of its own.
EveryRequestFollowsItsThrottle ==
    \A g \in Goroutines :
        /\ Len(gReqs[g]) <= Len(gPasses[g])
        /\ \A i \in 1..Len(gReqs[g]) : gReqs[g][i].at >= gPasses[g][i]

\* C9: any two returns of throttle() on one adapter instance are at least the
\* adapter's minimum delay apart, whichever goroutines made the calls.
C9_ThrottleReturnsMinDelayApart ==
    \A e, f \in Passes :
        e # f => Apart(gPasses[e[1]][e[2]], gPasses[f[1]][f[2]]) >= MinDelay(adapter)

\* Two goroutines passed the throttle, the second exactly the minimum delay
\* after the first.
C9_Witness ==
    \E g, h \in Goroutines :
        /\ g # h
        /\ gPasses[g] # <<>> /\ gPasses[h] # <<>>
        /\ gPasses[h][1] - gPasses[g][1] = MinDelay(adapter)

\* C10: in the listing fetch of Lobsters, Tildes, Reddit and Dev.to a second
\* request is sent exactly when the first response is 429, after the 2 s
\* backoff and a fresh throttle return; there is never a third request, and a
\* retry that fails makes the fetch return an error.
C10_OneRetryAfterBackoff ==
    adapter \in {"lobsters", "tildes", "reddit", "devto"} =>
        \A g \in Goroutines : gKind[g] = "listing" =>
            LET r == gReqs[g] IN
            /\ Len(r) <= 2
            /\ Len(r) = 2 =>
                  /\ r[1].status = "429"
                  /\ Len(gPasses[g]) = 2
                  /\ gPasses[g][2] >= r[1].respAt + Backoff
                  /\ r[2].at >= gPasses[g][2]
            /\ gpc[g] = "done" =>
                  /\ (r[1].status = "429") <=> (Len(r) = 2)
                  /\ (Len(r) = 2 /\ r[2].status # "200") => gResult[g] = "error"

\* A listing fetch answered 429 twice has ended in an error after two requests.
C10_Witness ==
    \E g \in Goroutines :
        /\ adapter \in {"lobsters", "tildes", "reddit", "devto"}
        /\ gKind[g] = "listing" /\ gpc[g] = "done"
        /\ Len(gReqs[g]) = 2
        /\ gReqs[g][2].status = "429"
        /\ gResult[g] = "error"

--------------------------------------------------------------------------
(* Claims about FetchStoryIDs *)

ListingReturned == lpc \in {"returned", "fetched"}

\* The upstream did not serve the page: no connection, or a failure status.
PageFailed(resp) == resp.status # "200"

\* C11: Lobsters and Tildes request page 1, then page 2; a failed page 1 ends
\* the call with an error after one request, and a failed page 2 after a
\* page 1 with at least one story ends it with exactly the page-1 stories.
C11_PageOneFatalPageTwoOptional ==
    (lSource \in {"lobsters", "tildes"} /\ ListingReturned) =>
        LET first == Convert(lSource, lGot[1].doc.entries, 1) IN
        /\ Len(lGot) \in 1..2
        /\ \A i \in 1..Len(lResult.stories) : \A j \in 1..Len(lResult.stories) :
              i < j => lResult.stories[i].page <= lResult.stories[j].page
        /\ PageFailed(lGot[1]) => (lResult.err # "" /\ Len(lGot) = 1)
        /\ (~PageFailed(lGot[1]) /\ Len(first) >= 1 /\ Len(lGot) = 2 /\ PageFailed(lGot[2]))
              => lResult = Listed(first)

\* Page 2 failed after a page 1 with stories, and the call succeeded.
C11_Witness ==
    /\ lSource \in {"lobsters", "tildes"} /\ ListingReturned
    /\ Len(lGot) = 2 /\ ~PageFailed(lGot[1]) /\ PageFailed(lGot[2])
    /\ lResult.err = "" /\ Len(lResult.stories) >= 1

\* C12: FetchStoryIDs fails when the feed key is not one of FeedNames(), when
\* the upstream is unreachable, and when there is no usable story; it never
\* succeeds with an empty listing.
C12_BadFeedUnreachableOrEmptyIsAnError ==
    ListingReturned =>
        /\ lFeed = "unlisted" => lResult.err # ""
        /\ (lGot # <<>> /\ lGot[1].status = "error") => lResult.err # ""
        /\ lResult.err = "" => lResult.stories # <<>>

\* C13: no item returned by FetchItem has an empty title, and no item without
\* a title is in the cache.
C13_NoItemWithoutTitle ==
    /\ \A i \in 1..Len(lCache) : lCache[i].title
    /\ (lpc = "fetched" /\ lItem.err = "") => lItem.title

\* The adapters that filter on the title keep that promise.
ScrapedAndFeedItemsHaveTitles ==
    lSource \in {"lobsters", "tildes", "apnews", "rss", "rssmap"} => C13_NoItemWithoutTitle

\* C23: the feed adapters keep only entries with both a title and a link: no
\* item cached by FetchStoryIDs or returned by FetchItem has an empty Title
\* or an empty URL.
C23_FeedItemsHaveTitleAndLink ==
    lSource \in {"rss", "rssmap"} =>
        /\ \A i \in 1..Len(lCache) : lCache[i].title /\ lCache[i].url
        /\ (lpc = "fetched" /\ lItem.err = "") => (lItem.title /\ lItem.url)

\* The feed-map client (convertRSSItems, convertAtomEntries) keeps it.
FeedMapItemsHaveTitleAndLink == lSource = "rssmap" => C23_FeedItemsHaveTitleAndLink

\* C18: a non-success status from the upstream makes FetchStoryIDs and the
\* Hacker News FetchItem return the error that carries the status.
C18_FailureStatusIsAnError ==
    /\ (ListingReturned /\ lGot # <<>> /\ lGot[1].status = "500")
          => lResult.err = "status"
    /\ (lpc = "fetched" /\ lSource = "hn" /\ lGot[Len(lGot)].status = "500")
          => lItem.err = "status"

\* The adapters whose listing fetch checks the status.
CheckedListingStatusIsAnError ==
    (lSource # "hn" /\ ListingReturned /\ lGot # <<>> /\ lGot[1].status = "500")
        => lResult.err = "status"

\* The usable entries of a document, for a feed adapter.
UsableEntries(source, doc) == Convert(source, doc.entries, 1)

\* C20: when the document served is not RSS with usable items but is Atom
\* with at least one usable entry, FetchStoryIDs yields the Atom items; the
\* parse error is returned only when neither attempt yields an item.
C20_AtomFallback ==
    (lSource \in {"rss", "rssmap"} /\ ListingReturned /\ lGot # <<>> /\ lGot[1].status = "200") =>
        LET doc == lGot[1].doc
            usable == UsableEntries(lSource, doc)
        IN  /\ (doc.format = "atom" /\ usable # <<>>) => lResult = Listed(usable)
            /\ lResult.err = "parse" => (doc.format = "garbage" \/ usable = <<>>)

\* The single-URL RSS client parses the one body it read both ways.
SingleURLAtomFallback == lSource = "rss" => C20_AtomFallback

--------------------------------------------------------------------------
(* Claims about the depth limit and the locator of FetchCommentTree *)

\* Every comment of a returned tree, at every nesting level, as [id, depth].
RECURSIVE Returned(_)
Returned(comments) ==
    UNION {{[id |-> comments[i].id, depth |-> comments[i].depth]}
               \cup Returned(comments[i].children) : i \in 1..Len(comments)}

\* A comment of the document survives when neither it nor one of its
\* ancestors is dropped.
RECURSIVE Survives(_)
Survives(id) ==
    /\ id \notin suppressed
    /\ LET parent == CHOOSE q \in DOMAIN kidsOf : \E i \in 1..Len(kidsOf[q]) : kidsOf[q][i] = id
       IN  parent = 0 \/ Survives(parent)

Comments == DOMAIN kidsOf \ {0}

\* The thread was served and parsed.
ThreadServed ==
    /\ tpc = "returned" /\ cGot # <<>>
    /\ cGot[1].status = "200" /\ cGot[1].body = "thread"

RECURSIVE ExpandedBelowLimit(_, _)
ExpandedBelowLimit(idlist, depth) ==
    IF idlist = <<>> THEN <<>>
    ELSE LET id == Head(idlist)
             rest == ExpandedBelowLimit(Tail(idlist), depth)
         IN  IF id \in suppressed THEN rest
             ELSE IF maxDepth <= 0 \/ depth < maxDepth
                  THEN <<Comment(id, depth, ExpandedBelowLimit(kidsOf[id], depth + 1))>> \o rest
                  ELSE <<Comment(id, depth, <<>>)>> \o rest

\* C15: Hacker News FetchCommentTree expands the children of every surviving
\* comment whose depth is below maxDepth and of none at depth maxDepth; with
\* maxDepth <= 0 it expands every level.
C15_ExpandsBelowMaxDepth ==
    (tpc = "returned" /\ down = {}) =>
        tree = TreeOk(ExpandedBelowLimit(kidsOf[0], 0))

\* With maxDepth <= 0 the Hacker News tree is complete.
UnlimitedTreeIsComplete ==
    (tpc = "returned" /\ down = {} /\ maxDepth <= 0) =>
        tree = TreeOk(ExpandedBelowLimit(kidsOf[0], 0))

\* C16: Lobsters and Tildes FetchCommentTree with maxDepth = d > 0 return no
\* comment of depth greater than d.
C16_ScrapedTreesHonourMaxDepth ==
    (cSource \in {"lobsters", "tildes"} /\ ThreadServed /\ maxDepth > 0) =>
        \A r \in Returned(tree.comments) : r.depth <= maxDepth

\* Every comment of the level has the given depth, and its children are one
\* level deeper.
RECURSIVE DepthsFrom(_, _)
DepthsFrom(comments, depth) ==
    \A i \in 1..Len(comments) :
        /\ comments[i].depth = depth
        /\ DepthsFrom(comments[i].children, depth + 1)

\* C22: in every tree returned by Hacker News or Dev.to, each root comment
\* has Depth 0 and each child has its parent's Depth plus 1.
C22_DepthIsParentDepthPlusOne ==
    (tpc = "returned" /\ cSource \in {"hn", "devto"}) => DepthsFrom(tree.comments, 0)

\* Hacker News returned a comment with a reply.
C22_Witness ==
    /\ tpc = "returned" /\ cSource = "hn"
    /\ \E i \in 1..Len(tree.comments) : tree.comments[i].children # <<>>

\* Dev.to returned a comment with a reply to a reply.
DevtoRepliesReturned ==
    /\ tpc = "returned" /\ cSource = "devto"
    /\ \E r \in Returned(tree.comments) : r.depth = 2

\* C25: no comment returned by Reddit FetchCommentTree, at any nesting level,
\* has an empty author or the author "[deleted]", and no entry of another
\* kind than a comment is returned.
C25_RedditReturnsAuthoredCommentsOnly ==
    (cSource = "reddit" /\ tpc = "returned") =>
        \A r \in Returned(tree.comments) : cEntry[r.id] = "comment"

\* A Reddit thread with a "more" stub and a comment of a deleted account
\* next to a comment that was returned.
C25_Witness ==
    /\ cSource = "reddit" /\ ThreadServed
    /\ \E i, j \in DOMAIN cEntry : cEntry[i] = "more" /\ cEntry[j] \in {"noauthor", "deleted"}
    /\ tree.comments # <<>>

\* C21: no comment returned by Hacker News FetchCommentTree, at any depth,
\* is deleted or dead, and the children of a deleted or dead comment are
\* never passed to a fetch.
C21_SuppressedNeitherReturnedNorExpanded ==
    tpc = "returned" =>
        /\ \A r \in Returned(tree.comments) : r.id \notin suppressed
        /\ \A s \in suppressed : \A i \in 1..Len(kidsOf[s]) : kidsOf[s][i] \notin batched

\* A deleted or dead comment that has children was fetched, and a comment
\* was returned.
C21_Witness ==
    /\ tpc = "returned" /\ ~tree.err /\ tree.comments # <<>>
    /\ \E s \in suppressed : s \in batched /\ kidsOf[s] # <<>>

\* C19: Reddit, Lobsters and Tildes FetchCommentTree return an error and send
\* no request when item.Type holds no thread locator.
C19_NoLocatorNoRequest ==
    (tpc = "returned" /\
        \/ cSource = "reddit" /\ ~HasPrefix(cType, <<"/", "r", "/">>)
        \/ cSource = "lobsters" /\ cType \in {<<>>, TypeStory}
        \/ cSource = "tildes" /\ (cType \in {<<>>, TypeStory} \/ ~HasPrefix(cType, <<"/">>)))
    => (tree.err /\ cGot = <<>>)

\* Tildes was handed a Lobsters short identifier and refused it.
C19_Witness ==
    /\ tpc = "returned" /\ cSource = "tildes" /\ cType = TypeShortID
    /\ tree.err /\ cGot = <<>>

--------------------------------------------------------------------------
(* Claims about FetchItems of the caching adapters *)

FetchItemsReturned == rpc = "done" /\ rOp = "FetchItems"

\* C17: FetchItems of a caching adapter returns one slot per identifier and no
\* error, slot i holding what one snapshot of the cache has for ids[i] (its
\* item, or nothing), the same snapshot for every slot.
C17_FetchItemsSlotPerIdOfOneSnapshot ==
    FetchItemsReturned =>
        /\ Len(rItems) = Len(rIds)
        /\ rErr = ""
        /\ \E snap \in rSeen : \A i \in 1..Len(rIds) : rItems[i] = Lookup(snap, rIds[i])

\* One slot per identifier and no error, on every caching adapter.
FetchItemsSlotPerIdNoError ==
    FetchItemsReturned => (Len(rItems) = Len(rIds) /\ rErr = "")

\* The whole of C17 on the adapters that guard the cache with cacheMu.
LockedFetchItemsOfOneSnapshot ==
    HasCacheMu(adapter) => C17_FetchItemsSlotPerIdOfOneSnapshot

--------------------------------------------------------------------------
(* Claims about main and NewRedditClient *)

\* C24: for every flag that main routes to the Reddit client, the community
\* name of the client carries no "r/" or "/r/" prefix, so that Name(), which
\* puts "r/" in front of it, has the prefix once.
C24_CommunityNameHasNoPrefix ==
    client.kind = "reddit" =>
        /\ ~HasPrefix(client.subreddit, <<"r", "/">>)
        /\ ~HasPrefix(client.subreddit, <<"/", "r", "/">>)
        /\ ~HasPrefix(RedditName(client.subreddit), <<"r", "/", "r", "/">>)

\* A name without a slash behind one lower-case prefix.
PlainFlag ==
    \E prefix \in {<<"r", "/">>, <<"/", "r", "/">>} :
        /\ HasPrefix(sourceFlag, prefix)
        /\ \A i \in (Len(prefix) + 1)..Len(sourceFlag) : sourceFlag[i] # "/"

\* For "r/name" and "/r/name" the client holds the bare name.
PlainFlagsAreNormalised ==
    (client.kind = "reddit" /\ PlainFlag) =>
        /\ C24_CommunityNameHasNoPrefix
        /\ \E prefix \in {<<"r", "/">>, <<"/", "r", "/">>} :
              sourceFlag = prefix \o client.subreddit

\* The prefix is stripped whatever its case, as main's routing ignores case.
AnyCasePrefixIsStripped ==
    client.kind = "reddit" =>
        \/ ~HasPrefix(ToLower(sourceFlag), <<"r", "/">>)
        \/ Len(client.subreddit) = Len(sourceFlag) - 2

--------------------------------------------------------------------------
(* Claims about StoryURL *)

\* C26: StoryURL sends no request and leaves the cache and the throttle
\* timestamp as they were; Reddit returns "https://www.reddit.com" + Type when
\* Type starts with "/r/", Lobsters returns "https://lobste.rs/s/" + Type when
\* Type is non-empty and not "story", and otherwise both return item.URL.
C26_StoryURLFromTypeOrRawURL ==
    upc = "returned" =>
        /\ uSource = "reddit" =>
              uResult = IF HasPrefix(uItem.type, <<"/", "r", "/">>)
                        THEN <<"https://www.reddit.com">> \o uItem.type
                        ELSE uItem.url
        /\ uSource = "lobsters" =>
              uResult = IF uItem.type # <<>> /\ uItem.type # TypeStory
                        THEN <<"https://lobste.rs", "/s/">> \o uItem.type
                        ELSE uItem.url
        /\ storyCache = << >> /\ lastRequest.zero /\ \A g \in Goroutines : gReqs[g] = <<>>

\* Reddit was asked for the URL of an item whose Type is not a permalink, and
\* returned the raw URL.
C26_Witness ==
    /\ upc = "returned" /\ uSource = "reddit"
    /\ uItem.type = <<"r", "/", "g", "o">> /\ uItem.url # <<>>
    /\ uResult = uItem.url

\* Lobsters built the URL from the short identifier.
LobstersURLFromShortID ==
    /\ upc = "returned" /\ uSource = "lobsters"
    /\ uItem.type = TypeShortID
    /\ uResult = <<"https://lobste.rs", "/s/", "a", "b", "c">>

--------------------------------------------------------------------------
(* Claims about FeedNames and FeedLabels *)

\* C27: for every adapter FeedLabels() and FeedNames() have the same length
\* and are non-empty, so every feed has its label; on the adapters that route
\* through a feed map every key of FeedNames() is a key of the map.
C27_FeedNamesMatchLabelsAndMaps ==
    /\ \A a \in FeedAdapters :
          /\ Len(FeedLabelsOf(a)) = Len(FeedNamesOf(a))
          /\ Len(FeedNamesOf(a)) > 0
    /\ fpc = "used" =>
          /\ fLabel # <<>>
          /\ fAdapter \in MapAdapters => fKnown

\* The last feed of AP News was used.
C27_Witness ==
    /\ fpc = "used" /\ fAdapter = "apnews" /\ fIndex = 10
    /\ fLabel = <<"Arts">> /\ fKnown

--------------------------------------------------------------------------
(* Claims about Item.TimeAgo *)

\* The age in whole seconds, rounded down.
WholeSeconds == IF aSince >= 0 THEN aSince \div Second ELSE 0 - ((0 - aSince + 1) \div Second)

\* "1 unit ago" or "n units ago"
Ago(count, unit) ==
    IF count = 1 THEN <<1, unit \o " ago">> ELSE <<count, unit \o "s ago">>

\* C28: for an age of s whole seconds TimeAgo returns "just now" for s < 60,
\* otherwise the count, rounded down, of the largest unit that fits (minutes
\* below 1 hour, hours below 24 hours, days below 30 days, months of 30 days
\* below 365 days, years of 365 days above), singular for a count of 1.
C28_TimeAgoBuckets ==
    apc = "returned" =>
        LET sec == WholeSeconds
        IN  aResult =
              IF sec < 60 THEN <<"just now">>
              ELSE IF sec < 3600 THEN Ago(sec \div 60, "minute")
              ELSE IF sec < 24 * 3600 THEN Ago(sec \div 3600, "hour")
              ELSE IF sec < 30 * 24 * 3600 THEN Ago(sec \div (24 * 3600), "day")
              ELSE IF sec < 365 * 24 * 3600 THEN Ago(sec \div (30 * 24 * 3600), "month")
              ELSE Ago(sec \div (365 * 24 * 3600), "year")

\* 90 seconds and a half gave "1 minute ago".
C28_Witness ==
    /\ apc = "returned" /\ aSince = 90 * Second + 1
    /\ aResult = <<1, "minute ago">>

\* 25 hours gave "1 day ago", and one second below 2 years "1 year ago".
DayAndYearExamples ==
    apc = "returned" =>
        /\ aSince = 25 * Hour => aResult = <<1, "day ago">>
        /\ aSince = 2 * 365 * 24 * Hour - Second => aResult = <<1, "year ago">>
        /\ aSince = 2 * 365 * 24 * Hour => aResult = <<2, "years ago">>

--------------------------------------------------------------------------
(* Claims about compareVersions and HasUpdate *)

\* The numeric components of a version without its leading "v", followed by
\* zeros up to the given length.
Components(version, length) ==
    LET parts == SplitDots(IF version # <<>> /\ version[1] = "v" THEN Tail(version) ELSE version)
    IN  [i \in 1..length |-> IF i <= Len(parts) THEN Atoi(parts[i]) ELSE 0]

\* The order of two lists of numbers of one length, read from the left.
Order(a, b) ==
    IF a = b THEN 0
    ELSE LET first == CHOOSE i \in 1..Len(a) : a[i] # b[i] /\ \A j \in 1..(i - 1) : a[j] = b[j]
         IN  IF a[first] > b[first] THEN 1 ELSE 0 - 1

\* C29: compareVersions compares the dot-separated numeric components from
\* the left, ignoring a leading "v" and taking missing components for 0; it
\* returns 1, -1 or 0, and the opposite for the arguments exchanged; HasUpdate
\* is true exactly when the info is non-nil, the latest version is non-empty
\* and it compares greater than the current version.
C29_CompareVersionsAndHasUpdate ==
    vpc = "returned" =>
        /\ vInfo # NilInfo =>
              /\ vCompared = Order(Components(vInfo.latest, MaxVersion + 1),
                                   Components(vInfo.current, MaxVersion + 1))
              /\ vCompared \in {0 - 1, 0, 1}
              /\ vCompared = 0 - compareVersions(vInfo.current, vInfo.latest)
        /\ vHasUpdate <=> (vInfo # NilInfo /\ vInfo.latest # <<>> /\ vCompared > 0)

\* "v1" against "1.0": equal, and no update; "1.1" against "1": an update.
C29_Witness ==
    /\ vpc = "returned" /\ vInfo # NilInfo
    /\ vInfo.latest = <<"1", ".", "1">> /\ vInfo.current = <<"1">>
    /\ vCompared = 1 /\ vHasUpdate

\* A leading "v" and a missing component make no difference.
PrefixAndMissingComponent ==
    (vpc = "returned" /\ vInfo # NilInfo) =>
        /\ (vInfo.latest = <<"v", "1">> /\ vInfo.current = <<"1", ".", "0">>) => vCompared = 0
        /\ (vInfo.latest = <<"1", "0">> /\ vInfo.current = <<"1", ".", "1">>) => vCompared = 1

--------------------------------------------------------------------------
(* Claims about CheckForUpdate *)

\* For "" and "dev" the call returns nil and sends no request; with a cache
\* file less than 24 hours old it answers from the file and sends no request.
DevAndFreshCacheSendNoRequest ==
    /\ kLast.version \in {"", "dev"} /\ kLast.result # "none"
          => (kLast.result = "nil" /\ ~kLast.asked)
    /\ (kLast.version \notin {"", "dev"} /\ kLast.fresh /\ kDirOk)
          => (kLast.result = "cached" /\ ~kLast.asked)

\* Any two requests to the release endpoint are a full interval apart.
QueriesADayApart ==
    \A i, j \in 1..Len(kQueries) : i < j => kQueries[j] - kQueries[i] >= CheckInterval

\* C30: CheckForUpdate returns nil without a request for "" and "dev"; with a
\* cache file less than 24 hours old it answers from the file without a
\* request; so over any sequence of calls the release endpoint is queried at
\* most once per 24-hour interval.
C30_ReleaseQueriedOncePerInterval ==
    DevAndFreshCacheSendNoRequest /\ QueriesADayApart

\* Once a check was answered and saved, the next request is a full interval
\* later.
SavedCheckHoldsForADay ==
    kCache # NoCache =>
        \A i \in 1..Len(kQueries) :
            kQueries[i] > kCache.lastCheck => kQueries[i] - kCache.lastCheck >= CheckInterval

--------------------------------------------------------------------------
(* Claims about a failing FetchStoryIDs *)

\* The step is an error return of FetchStoryIDs.
FetchStoryIDsFailed ==
    /\ fetchCount' = fetchCount + 1
    /\ wpc' = "idle"
    /\ wResult'.err # ""

\* C31: when FetchStoryIDs fails on a caching adapter the cache is left as it
\* was before the call: every identifier resolves to the same item, or to
\* none, as before.
C31_FailedFetchLeavesCache ==
    [][FetchStoryIDsFailed =>
           /\ DOMAIN storyCache' = DOMAIN storyCache
           /\ \A id \in AskIds : Lookup(storyCache', id) = Lookup(storyCache, id)]_vars

\* A listing fetch failed after an earlier one had filled the cache, and the
\* identifiers of the earlier listing still resolve.
C31_Witness ==
    /\ wpc = "idle" /\ fetchCount = 2 /\ wResult.err # ""
    /\ lastIds # <<>>
    /\ \A i \in 1..Len(lastIds) : Lookup(storyCache, lastIds[i]) = Item(1, i)

--------------------------------------------------------------------------
(* Claims about the two mutexes of the throttled adapters *)

\* The goroutine is inside throttle(), in the backoff sleep, or has a request
\* in flight.
Delayed(g) == gpc[g] \in {"throttle", "sleep", "backoff", "send", "wait"}

\* The goroutine stands at c.cacheMu.Lock() or c.cacheMu.RLock().
AtCacheLock(g) ==
    \/ gpc[g] = "rlock"
    \/ gpc[g] = "done" /\ gKind[g] = "listing" /\ gResult[g] = "ok"

\* The goroutines a waiting goroutine waits for: the holder of requestMu, the
\* writer, or for a writer the readers as well. A reader also waits for a
\* writer that stands at Lock(), as sync.RWMutex gives that writer the turn.
WaitsFor(g) ==
    IF gpc[g] = "throttle"
    THEN {h \in Goroutines \ {g} : requestMu = h}
    ELSE IF gpc[g] = "rlock"
    THEN {h \in Goroutines \ {g} : gHolds[h] = "w"}
    ELSE IF gpc[g] = "done" /\ gKind[g] = "listing" /\ gResult[g] = "ok"
    THEN {h \in Goroutines \ {g} : gHolds[h] # "none"}
    ELSE {}

\* A set of goroutines each of which waits for a member of the set only.
Deadlocked(S) == S # {} /\ \A g \in S : WaitsFor(g) # {} /\ WaitsFor(g) \subseteq S

\* The mutex variables agree with what the goroutines hold.
MutexesMatchHolders ==
    /\ cacheMu.writer <=> \E g \in Goroutines : gHolds[g] = "w"
    /\ cacheMu.readers = Cardinality({g \in Goroutines : gHolds[g] = "r"})
    /\ \A g \in Goroutines : requestMu = g <=> gpc[g] = "sleep"

\* C32: no operation holds the cache lock while it sleeps in the throttle or
\* has a request in flight, and none holds the throttle mutex while it
\* acquires the cache lock; so concurrent calls on one instance cannot
\* deadlock, and FetchItem / FetchItems never wait for a politeness delay:
\* they never enter the throttle, and the writer they may wait for is not
\* delayed.
C32_LocksNeverNestNoDeadlock ==
    /\ MutexesMatchHolders
    /\ \A g \in Goroutines : gHolds[g] # "none" => ~Delayed(g)
    /\ \A g \in Goroutines : requestMu = g => (~AtCacheLock(g) /\ gHolds[g] = "none")
    /\ \A S \in SUBSET Goroutines : ~Deadlocked(S)
    /\ \A g \in Goroutines : gKind[g] = "lookup" =>
          /\ ~Delayed(g)
          /\ gPasses[g] = <<>>
          /\ \A h \in WaitsFor(g) : gpc[h] = "store"

\* A FetchItem waits at RLock for the writer of a FetchStoryIDs that is
\* replacing the cache.
C32_Witness ==
    \E g, h \in Goroutines :
        /\ gpc[g] = "rlock" /\ gKind[g] = "lookup"
        /\ gpc[h] = "store" /\ gHolds[h] = "w" /\ gPasses[h] # <<>>

\* A FetchStoryIDs sleeps before its retry while a FetchItem on the same
\* instance, called during that sleep, has read the cache and returned.
LookupReturnsDuringSleep ==
    \E g, h \in Goroutines :
        /\ gpc[g] = "backoff" /\ gWake[g] > now /\ gKind[g] = "listing"
        /\ gKind[h] = "lookup" /\ gpc[h] = "done"

--------------------------------------------------------------------------
(* Claims about the termination of Hacker News FetchItems *)

\* A call of one identifier more than the pool has slots.
InitFetchItemsOverPool == StartFetchItems([i \in 1..(PoolSize + 1) |-> i], {})

\* Calls of no, one or two identifiers, any of them failing upstream.
InitFetchItemsShort ==
    \E n \in {0, 1, 2} : \E fails \in SUBSET (1..n) : StartFetchItems([i \in 1..n |-> i], fails)

\* The short calls and the call that overfills the pool.
StartHNAny == IdleCache /\ (InitFetchItemsShort \/ InitFetchItemsOverPool) /\ IdleTree /\ IdleThrottle
    /\ IdleListing /\ IdleThread /\ IdleUtil

\* Every fetch completes or fails, every goroutine that can run does run.
LiveFetchItems == StartHNAny /\ [][NextFetchItems]_vars /\ WF_vars(NextFetchItems)

\* The call has returned with every worker finished and the pool empty.
AllReturned ==
    /\ hpc = "returned"
    /\ \A i \in DOMAIN wk : wk[i] = "done"
    /\ InFlight(wk) = {}

\* C33: FetchItems returns for every input once every individual fetch has
\* completed or failed, with every worker finished and every pool slot
\* released; it never returns before that.
C33_FetchItemsReturns ==
    /\ <>[]AllReturned
    /\ [](hpc = "returned" => \A i \in DOMAIN wk : wk[i] = "done")

\* The call of more identifiers than the pool has slots has returned.
C33_Witness == AllReturned /\ Len(ids) > PoolSize /\ \A i \in DOMAIN items : items[i] = HNItem(ids[i])

\* The call of no identifier has returned.
EmptyCallReturns == hpc = "returned" /\ ids = <<>>

--------------------------------------------------------------------------
(* C34 - C40: the UI model *)

\* The stories of the listing that the gen-th listing fetch returned, from
\* its first position on, fill the slice given as runs.
RECURSIVE PrefixOf(_, _, _)
PrefixOf(runs, gen, from) ==
    \/ runs = <<>>
    \/ /\ runs[1].gen = gen
       /\ runs[1].lo = from
       /\ PrefixOf(Tail(runs), gen, runs[1].hi + 1)

\* C34: after any sequence of key presses and load completions m.stories
\* holds only stories of the latest listing fetch, the one of the selected
\* feed, in the order of the listing: a stories result requested before a
\* feed switch or a refresh is not appended to the new list.
C34_StoriesOfLatestListing == PrefixOf(mStories, issued.listings, 1)

\* A stories result of the first listing fetch stands in the list after a
\* feed switch to feed 1, whose own listing has not arrived.
StaleStoriesAfterSwitch ==
    /\ mFeed = 1 /\ issued.listings = 2
    /\ mStories # <<>> /\ mStories[1].gen = 1
    /\ \E msg \in inbox : msg.kind = "ids" /\ msg.gen = 2

\* C35: whenever m.stories is non-empty the cursor is an index of it, so
\* Enter and Comments never index outside the list.
C35_CursorInsideList ==
    /\ SliceLen(mStories) > 0 => (0 <= mCursor /\ mCursor < SliceLen(mStories))
    /\ mRun # "panic"

\* PageDown or End pressed on the empty list, the first batch arrived, and
\* Enter or Comments indexed m.stories[-1].
PanicAfterPageDownOnEmptyList ==
    /\ mRun = "panic" /\ mCursor = 0 - 1
    /\ issued.listings = 1 /\ C34_StoriesOfLatestListing

\* Two runs share a story identifier.
Overlap(a, b) == a.gen = b.gen /\ a.lo <= b.hi /\ b.lo <= a.hi

\* The runs under way in loadStories commands, one for each command.
Loading == {msg \in inbox : msg.kind = "stories"}

\* No story identifier is in two loadStories commands under way, or in one
\* under way and in m.stories, or in m.stories twice.
EachIdOnce ==
    /\ \A a, b \in Loading : a # b => ~Overlap(a.run, b.run)
    /\ \A a \in Loading : \A i \in 1..Len(mStories) : ~Overlap(a.run, mStories[i])
    /\ \A i, j \in 1..Len(mStories) : i # j => ~Overlap(mStories[i], mStories[j])

\* C36: each story identifier of a listing is requested and appended at most
\* once, whatever Down presses arrive while a batch is loading, and
\* len(m.stories) never exceeds len(m.storyIDs).
C36_EachStoryRequestedOnce ==
    /\ EachIdOnce
    /\ SliceLen(mStories) <= SliceLen(mStoryIDs)

\* With one listing fetch in the whole session, its second batch was
\* requested twice and appended twice.
SecondBatchAppendedTwice ==
    /\ issued.listings = 1
    /\ Len(mStories) = 3 /\ mStories[2] = mStories[3]
    /\ SliceLen(mStories) > SliceLen(mStoryIDs)


\* Refresh was pressed with the error on display, no fetch has failed
\* since, the listing it fetched and the first batch of that listing have
\* arrived, and nothing is loading.
RetrySucceeded ==
    /\ uRetried
    /\ mStoryIDs # <<>> /\ mStoryIDs[1].gen = issued.listings
    /\ mStories # <<>> /\ PrefixOf(mStories, issued.listings, 1)
    /\ mHeight # 0 /\ ~mLoading

\* C37: after a fetch error was displayed and Refresh was pressed, once the
\* new listing fetch and its first batch have succeeded the view shows the
\* stories and no longer the error.
C37_RefreshReplacesError == RetrySucceeded => View # "error"

\* The first listing fetch failed, Refresh was the only key pressed, the
\* second listing and its stories are in the model, and the view is the
\* error.
ErrorStaysAfterRetry ==
    /\ RetrySucceeded /\ uKeys = 1 /\ issued.listings = 2 /\ inbox = {}
    /\ mView = "stories" /\ ~mShowHelp
    /\ View = "error"

\* C38: in the stories view the selected story is inside the visible window,
\* offset <= cursor < offset + visibleStoryCount(), after every navigation
\* key, feed switch and refresh.
C38_CursorInsideWindow ==
    mView = "stories" =>
        (mOffset <= mCursor /\ mCursor < mOffset + visibleStoryCount(mHeight))

\* After End on a list of 30 stories and Refresh the cursor is 0, inside the
\* list to come, and the window starts further down.
OffsetKeptAfterRefresh ==
    /\ mView = "stories" /\ mCursor = 0 /\ mOffset > 0
    /\ issued.listings = 2 /\ mFeed = 0 /\ uKeys = 2

\* A navigation key that moves the cursor to a position of the list leaves
\* it inside the window.
MoveKeepsCursorInsideWindow ==
    [][(KeyUp \/ KeyDown \/ KeyPageUp \/ KeyPageDown \/ KeyHome \/ KeyEnd)
        /\ mView = "stories" /\ mCursor' # mCursor /\ 0 <= mCursor'
       => (mOffset' <= mCursor' /\ mCursor' < mOffset' + visibleStoryCount(mHeight))]_vars


\* The first batch of a listing, requested by the storyIDsLoadedMsg case
\* when the listing arrived, is under way.
FirstBatchUnderWay == \E msg \in inbox : msg.kind = "stories" /\ msg.run.lo = 1

\* This step handles a storiesLoadedMsg.
StoriesResult == \E msg \in inbox : msg.kind = "stories" /\ inbox' = inbox \ {msg}

\* This step handles a result message that carries an error: m.err is set and
\* nothing else is stored.
ErrorResult ==
    /\ inbox' # inbox /\ inbox' \subseteq inbox
    /\ mErr' # "" /\ mStories' = mStories /\ mComments' = mComments

\* This step handles a storyIDsLoadedMsg without error: a loadStories
\* command takes the place of the loadStoryIDs command.
StoryIDsResult == \E msg \in inbox : msg.kind = "ids" /\ msg \notin inbox' /\ inbox' # inbox \ {msg}

\* C39: loading, once set, becomes false when the results arrive; after a
\* story-ID result without error it stays set until the following stories
\* result arrives; an error result clears it.
C39_LoadingKeptUntilStories ==
    [][(mLoading /\ FirstBatchUnderWay /\ ~mLoading') => (StoriesResult \/ ErrorResult)]_vars

\* The comments of a story were requested, Refresh was pressed in the
\* comments view, the new listing arrived, and the comments result cleared
\* m.loading with the first batch of the listing still under way.
LoadingClearedWithBatchUnderWay ==
    /\ ~mLoading /\ FirstBatchUnderWay
    /\ mView = "comments" /\ mComments = "loaded" /\ mErr = ""
    /\ issued.listings = 2 /\ uKeys = 2

\* The storyIDsLoadedMsg case without error leaves m.loading as it is, and
\* every other result message sets it to false.
ResultsSetLoading ==
    [][(inbox' # inbox /\ uKeys' = uKeys)
       => IF StoryIDsResult THEN mLoading' = mLoading ELSE ~mLoading']_vars

\* While m.loading is set some command is under way, whose result is still
\* to be delivered.
LoadingHasCommandUnderWay == (mRun = "running" /\ mLoading) => inbox # {}

\* This step is the NextTab or PrevTab case with the stories view open: the
\* listing is cleared, the cursor is 0 and the listing of the feed is being
\* fetched.
Switched(feed) ==
    /\ mFeed' = feed
    /\ mStories' = <<>> /\ mStoryIDs' = <<>> /\ mCursor' = 0
    /\ mLoading'
    /\ [kind |-> "ids", gen |-> issued'.listings, feed |-> feed] \in inbox' \ inbox

\* C40: the feed index stays in [0, FeedCount); in the stories view NextTab
\* moves it forward cyclically and PrevTab back, the one undoing the other,
\* each clearing the listing, setting the cursor to 0 and starting a listing
\* fetch; in the comments view both leave the feed and the listing as they
\* are.
C40_FeedSwitchesCyclic ==
    /\ [](mFeed \in 0..(FeedCount - 1))
    /\ [][(KeyNextTab /\ mView = "stories")
          => /\ Switched(IF mFeed = FeedCount - 1 THEN 0 ELSE mFeed + 1)
             /\ (mFeed' - 1 + FeedCount) % FeedCount = mFeed]_vars
    /\ [][(KeyPrevTab /\ mView = "stories")
          => /\ Switched(IF mFeed = 0 THEN FeedCount - 1 ELSE mFeed - 1)
             /\ (mFeed' + 1) % FeedCount = mFeed]_vars
    /\ [][((KeyNextTab \/ KeyPrevTab) /\ mView = "comments")
          => UNCHANGED <<mFeed, mStoryIDs, mStories, mCursor, inbox>>]_vars

\* PrevTab from feed 0 selected the last feed, and NextTab from there feed 0
\* again; neither listing has arrived yet.
C40_Witness ==
    /\ mFeed = 0 /\ uKeys = 2
    /\ [kind |-> "ids", gen |-> 2, feed |-> FeedCount - 1] \in inbox
    /\ [kind |-> "ids", gen |-> 3, feed |-> 0] \in inbox

\* NextTab, then PrevTab.
NextTabThenPrevTab ==
    /\ mFeed = 0 /\ uKeys = 2
    /\ [kind |-> "ids", gen |-> 2, feed |-> 1] \in inbox
    /\ [kind |-> "ids", gen |-> 3, feed |-> 0] \in inbox

====
